---- MODULE Spec2Model ----
(***************************************************************************)
(* The scanner worker of aws-s3-scanner (scanner/src/index.js, db.js,      *)
(* s3-handler.js, detectors.js), the relational tables it writes (the      *)
(* schema) and the queue it consumes (terraform/sqs.tf), as a state        *)
(* machine.  Every await of processMessage is one step of a worker, so     *)
(* that several workers interleave at the points where the code yields.    *)
(***************************************************************************)
EXTENDS Integers, Sequences, FiniteSets, TLC

VARIABLES
  queue,          \* main queue: message id -> [st, rc] (state, receive count)
  body,           \* message id -> the Body string of the message, as a record
  job_objects,    \* table job_objects: natural key -> [status, last_error]
  findings,       \* table findings: sequence of rows, in id order
  pc,             \* worker -> the await it is suspended at
  message,        \* worker -> id of the message held (ReceiptHandle in handle)
  loc,            \* worker -> locals of processMessage
  log,            \* worker -> the calls made in the current attempt, in order
  isShuttingDown, \* worker -> the shutdown flag of its process
  faults,         \* number of infrastructure errors injected so far
  ended,          \* message id -> number of attempts on it that have ended
  firstRun,       \* message id -> findings rows of its object when the first
                  \* complete run (through the delete) ended, -1 before
  jobs,           \* table jobs: the set of job ids that have a row
  ing,            \* the scan handler (ingestor): its position and locals
  api,            \* the read handlers and their client: request, response
  sd,             \* worker -> position of its shutdown handler
  pool,           \* worker -> state of the store-adapter pool of its process
  stopped,        \* message id -> how the last process that stopped while
                  \* holding it stood to the delete, and the receive count then
  det             \* the detectors: the call under way and what it returned

vars == <<queue, body, job_objects, findings, pc, message, loc, log,
          isShuttingDown, faults, ended, firstRun, jobs, ing, api, sd, pool,
          stopped, det>>

\* The state of the components a step of another component leaves alone.
workerVars ==
  <<pc, message, loc, log, isShuttingDown, ended, firstRun, sd, pool, stopped,
    det>>
ingestVars == <<jobs, ing>>
rest == <<jobs, ing, api, sd, pool, stopped, det>>

(***************************************************************************)
(* Bounds of the model.                                                    *)
(***************************************************************************)
MaxFaults == 1

Workers == {"w1", "w2"}
MsgIds == {"m1", "m2"}

(***************************************************************************)
(* Program constants.                                                      *)
(***************************************************************************)
MAX_FILE_SIZE == 104857600
MaxReceiveCount == 3

NULL == "NULL"

SUPPORTED_EXTENSIONS ==
  { <<".", "t", "x", "t">>, <<".", "c", "s", "v">>,
    <<".", "j", "s", "o", "n">>, <<".", "l", "o", "g">> }

\* The detectors in the order scanContent applies them.
DETECTORS ==
  <<"SSN", "CREDIT_CARD", "AWS_ACCESS_KEY", "AWS_SECRET_KEY", "EMAIL", "US_PHONE">>

(***************************************************************************)
(* Strings are sequences of characters, so that suffixes can be computed.  *)
(***************************************************************************)
UpperCase ==
  <<"A", "B", "C", "D", "E", "F", "G", "H", "I", "J", "K", "L", "M",
    "N", "O", "P", "Q", "R", "S", "T", "U", "V", "W", "X", "Y", "Z">>

LowerCase ==
  <<"a", "b", "c", "d", "e", "f", "g", "h", "i", "j", "k", "l", "m",
    "n", "o", "p", "q", "r", "s", "t", "u", "v", "w", "x", "y", "z">>

Lower(c) ==
  IF \E i \in 1..Len(UpperCase) : UpperCase[i] = c
  THEN LowerCase[CHOOSE i \in 1..Len(UpperCase) : UpperCase[i] = c]
  ELSE c

toLowerCase(s) == [i \in 1..Len(s) |-> Lower(s[i])]

\* String.prototype.lastIndexOf: 0-based index of the last c in s, or -1.
lastIndexOf(s, c) ==
  LET hits == {i \in 1..Len(s) : s[i] = c}
  IN  IF hits = {} THEN -1
      ELSE (CHOOSE i \in hits : \A j \in hits : j <= i) - 1

\* String.prototype.slice(start): a negative start counts from the end.
slice(s, start) ==
  LET from == IF start < 0
              THEN (IF Len(s) + start < 0 THEN 0 ELSE Len(s) + start)
              ELSE (IF start > Len(s) THEN Len(s) ELSE start)
  IN  SubSeq(s, from + 1, Len(s))

\* The extension compared without its dot: "txt" alone passes.
isSupportedFileType_NoDot(key) ==
  \E ext \in SUPPORTED_EXTENSIONS :
    /\ Len(key) >= Len(ext) - 1
    /\ toLowerCase(SubSeq(key, Len(key) - Len(ext) + 2, Len(key))) = Tail(ext)

isSupportedFileType(key) ==
  toLowerCase(slice(key, lastIndexOf(key, "."))) \in SUPPORTED_EXTENSIONS

\* ETag?.replace(/"/g, ''): every quote character removed.
StripQuotes(t) == SelectSeq(t, LAMBDA c : c # "\"")

(***************************************************************************)
(* The blob store.  An object has a size, an ETag (quoted, as S3 returns   *)
(* it) and a text; the text is given by the pattern matches it contains:   *)
(* detector, pattern number within the detector, index of the match,       *)
(* whether the validator accepts it and whether a gate keyword lies in     *)
(* its context window.                                                     *)
(***************************************************************************)
K_TXT == <<"a", ".", "T", "X", "T">>
K_PDF == <<"b", ".", "p", "d", "f">>
K_LOG == <<"c", ".", "L", "O", "G">>
K_CSV == <<"d", ".", "c", "s", "v">>
K_BARE == <<"t", "x", "t">>

Match(d, p, i, v, k) ==
  [detector |-> d, pattern |-> p, index |-> i, valid |-> v, keyword |-> k]

S3Object(key) ==
  CASE key = K_TXT ->
         [size |-> MAX_FILE_SIZE, ETag |-> <<"\"", "e1", "\"">>,
          matches |-> { Match("EMAIL", 1, 5, TRUE, FALSE),
                        Match("SSN", 1, 20, TRUE, TRUE),
                        Match("CREDIT_CARD", 1, 40, FALSE, TRUE),
                        Match("US_PHONE", 4, 40, TRUE, FALSE) }]
    [] key = K_LOG ->
         [size |-> MAX_FILE_SIZE + 1, ETag |-> <<"\"", "e3", "\"">>,
          matches |-> { Match("EMAIL", 1, 0, TRUE, FALSE) }]
    [] key = K_CSV ->
         [size |-> 1, ETag |-> <<"\"", "e4", "\"">>,
          matches |-> { Match("SSN", 1, 7, TRUE, FALSE) }]
    [] OTHER ->
         [size |-> 1, ETag |-> <<"\"", "e2", "\"">>,
          matches |-> { Match("AWS_ACCESS_KEY", 1, 0, TRUE, FALSE) }]

(***************************************************************************)
(* scanContent: the detectors in their declared order; per detector the    *)
(* patterns in order and the matches of a pattern left to right; the       *)
(* validator (CREDIT_CARD only) before the context gate (SSN, CREDIT_CARD, *)
(* AWS_SECRET_KEY, US_PHONE).                                              *)
(***************************************************************************)
HasValidator(d) == d = "CREDIT_CARD"
HasContextKeywords(d) == d \in {"SSN", "CREDIT_CARD", "AWS_SECRET_KEY", "US_PHONE"}

Admitted(m) ==
  /\ HasValidator(m.detector) => m.valid
  /\ HasContextKeywords(m.detector) => m.keyword

Before(a, b) ==
  \/ a.pattern < b.pattern
  \/ a.pattern = b.pattern /\ a.index < b.index

RECURSIVE InOrder(_)
InOrder(S) ==
  IF S = {} THEN <<>>
  ELSE LET first == CHOOSE a \in S : \A b \in S \ {a} : Before(a, b)
       IN  <<first>> \o InOrder(S \ {first})

RECURSIVE scanDetectors(_, _, _, _, _, _)
scanDetectors(n, matches, bucket, key, etag, jobId) ==
  IF n > Len(DETECTORS) THEN <<>>
  ELSE LET mine == {m \in matches : m.detector = DETECTORS[n] /\ Admitted(m)}
           out  == [i \in 1..Cardinality(mine) |->
                      [job_id |-> jobId, bucket |-> bucket, key |-> key,
                       etag |-> etag, detector |-> DETECTORS[n],
                       byte_offset |-> InOrder(mine)[i].index]]
       IN  out \o scanDetectors(n + 1, matches, bucket, key, etag, jobId)

scanContent(content, bucket, key, etag, jobId) ==
  scanDetectors(1, content, bucket, key, etag, jobId)

(***************************************************************************)
(* Message bodies.  raw says what JSON.parse makes of the Body: it throws  *)
(* on "garbage", and returns null, a number or an object.  A missing       *)
(* field of an object is the empty string (undefined and "" are both       *)
(* falsy in the checks of processMessage).                                 *)
(***************************************************************************)
Body(raw, j, b, k, e) ==
  [raw |-> raw, job_id |-> j, bucket |-> b, key |-> k, etag |-> e]

Catalogue ==
  << Body("object", "j1", "bk", K_TXT, <<"e1">>),
     Body("object", "j2", "bk", K_TXT, <<"e1">>),
     Body("object", "j1", "bk", K_TXT, <<>>),
     Body("object", "j1", "bk", K_PDF, <<"e2">>),
     Body("object", "j1", "bk", K_LOG, <<"e3">>),
     Body("object", "j1", "bk", K_CSV, <<"e4">>),
     Body("object", "j1", "bk", K_BARE, <<"e2">>),
     Body("object", "j1", "bk", <<>>, <<"e1">>),
     Body("garbage", "", "", <<>>, <<>>),
     Body("null", "", "", <<>>, <<>>),
     Body("number", "", "", <<>>, <<>>),
     \* listed with the tag e0; the object was overwritten since (e1 now)
     Body("object", "j1", "bk", K_TXT, <<"e0">>) >>

JsonParses(b) == b.raw # "garbage"

\* const { bucket, key, job_id, etag } = messageBody throws a TypeError on null.
DestructureThrows(b) == b.raw = "null"

Field(b, f) ==
  IF b.raw = "object" THEN b[f]
  ELSE IF f \in {"key", "etag"} THEN <<>> ELSE ""

MissingRequired(b) ==
  Field(b, "bucket") = "" \/ Field(b, "key") = <<>> \/ Field(b, "job_id") = ""

\* A body the worker can process: it names a job, a bucket and a key.
Valid(b) == JsonParses(b) /\ ~DestructureThrows(b) /\ ~MissingRequired(b)

(***************************************************************************)
(* The store adapter (db.js) over the tables of the schema.                *)
(***************************************************************************)
RowKey(jobId, bucket, key, etag) == <<jobId, bucket, key, etag>>

\* The job_object rows the ingestor wrote: one per object message.
RowKeys ==
  { RowKey(Catalogue[i].job_id, Catalogue[i].bucket, Catalogue[i].key,
           Catalogue[i].etag) :
      i \in {n \in 1..Len(Catalogue) :
               Valid(Catalogue[n]) /\ Catalogue[n].etag # <<>>} }

Terminal == {"succeeded", "failed"}

\* SET last_error = COALESCE($2, last_error): an absent error keeps the old one.
updateJobObjectStatus_KeepError(tbl, jobId, bucket, key, etag, status, error) ==
  [r \in DOMAIN tbl |->
     IF r = <<jobId, bucket, key, etag>>
     THEN [status |-> status,
           last_error |-> IF error = NULL THEN tbl[r].last_error ELSE error]
     ELSE tbl[r]]

\* UPDATE ... AND status NOT IN ('succeeded', 'failed'): terminal rows kept.
updateJobObjectStatus_Guarded(tbl, jobId, bucket, key, etag, status, error) ==
  [r \in DOMAIN tbl |->
     IF r = <<jobId, bucket, key, etag>> /\ tbl[r].status \notin {"succeeded", "failed"}
     THEN [status |-> status, last_error |-> error]
     ELSE tbl[r]]

\* UPDATE job_objects ... WHERE job_id only: every row of the job is written.
updateJobObjectStatus_AnyKey(tbl, jobId, bucket, key, etag, status, error) ==
  [r \in DOMAIN tbl |->
     IF r[1] = jobId
     THEN [status |-> status, last_error |-> error]
     ELSE tbl[r]]

\* UPDATE job_objects SET status, last_error WHERE job_id, bucket, key, etag.
updateJobObjectStatus(tbl, jobId, bucket, key, etag, status, error) ==
  [r \in DOMAIN tbl |->
     IF r = RowKey(jobId, bucket, key, etag)
     THEN [status |-> status, last_error |-> error]
     ELSE tbl[r]]

\* The columns of the unique index findings_dedupe_idx.
DedupeKey(f) == <<f.bucket, f.key, f.etag, f.detector, f.byte_offset>>

Conflict(rows, f) == \E i \in 1..Len(rows) : DedupeKey(rows[i]) = DedupeKey(f)

\* INSERT without the unique index: every record becomes a row.
InsertFinding_NoIndex(rows, f) ==
  Append(rows, [id |-> Len(rows) + 1, job_id |-> f.job_id, bucket |-> f.bucket,
                key |-> f.key, etag |-> f.etag, detector |-> f.detector,
                byte_offset |-> f.byte_offset])

\* ON CONFLICT ... DO UPDATE written as delete and insert: the row in
\* conflict is replaced by a new one.
InsertFinding_Replace(rows, f) ==
  LET kept == SelectSeq(rows, LAMBDA r : DedupeKey(r) # DedupeKey(f))
      last == IF rows = <<>> THEN 0 ELSE rows[Len(rows)].id
  IN  Append(kept, [id |-> last + 1, job_id |-> f.job_id, bucket |-> f.bucket,
                    key |-> f.key, etag |-> f.etag, detector |-> f.detector,
                    byte_offset |-> f.byte_offset])

\* ON CONFLICT ... DO UPDATE SET job_id = EXCLUDED.job_id: the row in
\* conflict goes to the job that scanned last.
InsertFinding_Reattribute(rows, f) ==
  IF Conflict(rows, f)
  THEN [i \in 1..Len(rows) |->
          IF DedupeKey(rows[i]) = DedupeKey(f)
          THEN [rows[i] EXCEPT !.job_id = f.job_id] ELSE rows[i]]
  ELSE Append(rows, [id |-> Len(rows) + 1, job_id |-> f.job_id,
                     bucket |-> f.bucket, key |-> f.key, etag |-> f.etag,
                     detector |-> f.detector, byte_offset |-> f.byte_offset])

\* INSERT INTO findings ... ON CONFLICT (bucket, key, etag, detector,
\* byte_offset) DO NOTHING, one record; id is the serial primary key.
InsertFinding(rows, f) ==
  IF Conflict(rows, f) THEN rows
  ELSE Append(rows, [id |-> Len(rows) + 1, job_id |-> f.job_id,
                     bucket |-> f.bucket, key |-> f.key, etag |-> f.etag,
                     detector |-> f.detector, byte_offset |-> f.byte_offset])

\* const errorMessage = error.message || 'Unknown error'
ErrorMessage(m) == IF m \in {NULL, ""} THEN "Unknown error" ELSE m

(***************************************************************************)
(* State of a worker.                                                      *)
(***************************************************************************)
NoMsg == "none"

\* No process has stopped while holding the message.
NoStop == [when |-> "no", rc |-> 0, h |-> 0, gone |-> FALSE]

\* A handler that is serving no request.
Idle == [pc |-> "idle"]

InitLoc ==
  [handle |-> 0, fileEtag |-> <<>>, findings |-> <<>>, idx |-> 0,
   insertedCount |-> 0, error |-> NULL, prior |-> 0, after |-> -1]

\* One call of the attempt: what was called, with which entity-tag and error
\* text (status writes), and whether the call returned normally.
Call(op, etag, error, ok) == [op |-> op, etag |-> etag, error |-> error, ok |-> ok]

Ops(l) == {l[i].op : i \in 1..Len(l)}

CanFault == faults < MaxFaults

\* A query of the process fails: the store is unreachable, or the pool of
\* the process has been ended (pool.query rejects after pool.end()).
StoreFails(w) == CanFault \/ pool[w] # "open"

FaultsAfter(w) == IF pool[w] = "open" THEN faults + 1 ELSE faults

Cur(w) == body[message[w]]

\* The messages in the queue when the workers start: one message of the
\* catalogue, or two objects of one job.
Scenarios ==
  {<<i, 0>> : i \in 1..Len(Catalogue)} \cup {<<1, 4>>}

Init ==
  /\ \E sc \in Scenarios :
       /\ body = [m \in MsgIds |->
                    IF m = "m1" THEN Catalogue[sc[1]]
                    ELSE Catalogue[IF sc[2] = 0 THEN sc[1] ELSE sc[2]]]
       /\ queue = [m \in MsgIds |->
                     [st |-> IF m = "m2" /\ sc[2] = 0 THEN "absent" ELSE "visible",
                      rc |-> 0]]
  /\ job_objects = [r \in RowKeys |-> [status |-> "queued", last_error |-> NULL]]
  /\ findings = <<>>
  /\ pc = [w \in Workers |-> "poll"]
  /\ message = [w \in Workers |-> NoMsg]
  /\ loc = [w \in Workers |-> InitLoc]
  /\ log = [w \in Workers |-> <<>>]
  /\ isShuttingDown = [w \in Workers |-> FALSE]
  /\ faults = 0
  /\ ended = [m \in MsgIds |-> 0]
  /\ firstRun = [m \in MsgIds |-> -1]
  /\ jobs = {"j1", "j2"}
  /\ ing = Idle
  /\ api = Idle
  /\ sd = [w \in Workers |-> "none"]
  /\ pool = [w \in Workers |-> "open"]
  /\ stopped = [m \in MsgIds |-> NoStop]
  /\ det = Idle

(***************************************************************************)
(* The queue (terraform/sqs.tf): a received message is invisible until     *)
(* its visibility timeout expires; the redrive policy moves a message      *)
(* that was received maxReceiveCount times to the dead-letter queue        *)
(* instead of delivering it again.                                         *)
(***************************************************************************)
Receivable_OffByOne(m) ==
  queue[m].st = "visible" /\ queue[m].rc <= MaxReceiveCount

Receivable(m) ==
  queue[m].st = "visible" /\ queue[m].rc < MaxReceiveCount

VisibilityTimeout(m) ==
  /\ queue[m].st = "inflight"
  /\ queue' = [queue EXCEPT ![m].st = "visible"]
  /\ UNCHANGED <<body, job_objects, findings, pc, message, loc, log,
                 isShuttingDown, faults, ended, firstRun>>
  /\ UNCHANGED rest

MoveToDLQ(m) ==
  /\ queue[m].st = "visible"
  /\ ~Receivable(m)
  /\ queue' = [queue EXCEPT ![m].st = "dlq"]
  /\ UNCHANGED <<body, job_objects, findings, pc, message, loc, log,
                 isShuttingDown, faults, ended, firstRun>>
  /\ UNCHANGED rest

\* DeleteMessage removes the message when the receipt handle is the one of
\* its most recent receive; with an older handle the request succeeds and
\* deletes nothing.
Deleted(q, m, handle) ==
  IF q[m].st \in {"inflight", "visible"} /\ q[m].rc = handle
  THEN [q EXCEPT ![m].st = "deleted"]
  ELSE q

(***************************************************************************)
(* pollQueue.  At "poll" a ReceiveMessage of at most one message is in     *)
(* flight.  When it returns a message, the for loop checks the shutdown    *)
(* flag and processMessage runs up to its first await: JSON.parse, the     *)
(* destructuring and the required-field check.                             *)
(***************************************************************************)
\* The TypeError of the destructuring leaves pollQueue uncaught.
FirstAwait_Uncaught(b) ==
  IF ~JsonParses(b) THEN "delete"
  ELSE IF DestructureThrows(b) THEN "exited"
  ELSE IF MissingRequired(b) THEN "delete"
  ELSE "markProcessing"

FirstAwait(b) ==
  IF ~JsonParses(b) THEN "delete"
  ELSE IF DestructureThrows(b) THEN "backoff"
  ELSE IF MissingRequired(b) THEN "delete"
  ELSE "markProcessing"

\* The calls made up to there: JSON.parse and, when it returns, the
\* destructuring.
FirstCalls(b) ==
  IF ~JsonParses(b) THEN <<Call("parse", <<>>, NULL, FALSE)>>
  ELSE <<Call("parse", <<>>, NULL, TRUE),
         Call("destructure", <<>>, NULL, ~DestructureThrows(b))>>

Receive(w, m) ==
  /\ pc[w] = "poll"
  /\ Receivable(m)
  /\ queue' = [queue EXCEPT ![m] = [st |-> "inflight", rc |-> queue[m].rc + 1]]
  /\ IF isShuttingDown[w]
     THEN /\ pc' = [pc EXCEPT ![w] = "stopped"]
          /\ UNCHANGED <<message, loc, log, ended>>
     ELSE /\ pc' = [pc EXCEPT ![w] = FirstAwait(body[m])]
          /\ message' = [message EXCEPT ![w] = m]
          /\ ended' = [ended EXCEPT ![m] =
                         IF FirstAwait(body[m]) = "backoff" THEN @ + 1 ELSE @]
          /\ loc' = [loc EXCEPT ![w] = [InitLoc EXCEPT !.handle = queue[m].rc + 1,
                                                       !.prior = ended[m],
                                                       !.after = firstRun[m]]]
          /\ log' = [log EXCEPT ![w] = FirstCalls(body[m])]
  /\ UNCHANGED <<body, job_objects, findings, isShuttingDown, faults, firstRun>>
  /\ UNCHANGED rest

\* ReceiveMessage throws: the catch of pollQueue sleeps 5 s.
ReceiveFails(w) ==
  /\ pc[w] = "poll"
  /\ CanFault
  /\ faults' = faults + 1
  /\ pc' = [pc EXCEPT ![w] = "backoff"]
  /\ UNCHANGED <<queue, body, job_objects, findings, message, loc, log,
                 isShuttingDown, ended, firstRun>>
  /\ UNCHANGED rest

\* The long poll returns no message after the flag was set: the loop ends.
ReceiveNone(w) ==
  /\ pc[w] = "poll"
  /\ isShuttingDown[w]
  /\ pc' = [pc EXCEPT ![w] = "stopped"]
  /\ UNCHANGED <<queue, body, job_objects, findings, message, loc, log,
                 isShuttingDown, faults, ended, firstRun>>
  /\ UNCHANGED rest

\* await updateJobObjectStatus(job_id, bucket, key, etag, 'processing')
MarkProcessing(w) ==
  /\ pc[w] = "markProcessing"
  /\ \/ /\ job_objects' = updateJobObjectStatus(job_objects, Cur(w).job_id,
                            Cur(w).bucket, Cur(w).key, Cur(w).etag,
                            "processing", NULL)
        /\ pc' = [pc EXCEPT ![w] =
                    IF isSupportedFileType(Cur(w).key) THEN "fetch" ELSE "skip"]
        /\ log' = [log EXCEPT ![w] =
                     Append(@, Call("status:processing", Cur(w).etag, NULL, TRUE))]
        /\ UNCHANGED <<loc, faults>>
     \/ /\ StoreFails(w)
        /\ faults' = FaultsAfter(w)
        /\ pc' = [pc EXCEPT ![w] = "catch"]
        /\ loc' = [loc EXCEPT ![w].error = "store error"]
        /\ log' = [log EXCEPT ![w] =
                     Append(@, Call("status:processing", Cur(w).etag, NULL, FALSE))]
        /\ UNCHANGED job_objects
  /\ UNCHANGED <<queue, body, findings, message, isShuttingDown, ended, firstRun>>
  /\ UNCHANGED rest

SkipNote == "Unsupported file type - skipped"

\* await updateJobObjectStatus(..., 'succeeded', 'Unsupported file type - skipped')
SkipUnsupported(w) ==
  /\ pc[w] = "skip"
  /\ \/ /\ job_objects' = updateJobObjectStatus(job_objects, Cur(w).job_id,
                            Cur(w).bucket, Cur(w).key, Cur(w).etag,
                            "succeeded", SkipNote)
        /\ pc' = [pc EXCEPT ![w] = "delete"]
        /\ log' = [log EXCEPT ![w] =
                     Append(@, Call("status:succeeded", Cur(w).etag, SkipNote, TRUE))]
        /\ UNCHANGED <<loc, faults>>
     \/ /\ StoreFails(w)
        /\ faults' = FaultsAfter(w)
        /\ pc' = [pc EXCEPT ![w] = "catch"]
        /\ loc' = [loc EXCEPT ![w].error = "store error"]
        /\ log' = [log EXCEPT ![w] =
                     Append(@, Call("status:succeeded", Cur(w).etag, SkipNote, FALSE))]
        /\ UNCHANGED job_objects
  /\ UNCHANGED <<queue, body, findings, message, isShuttingDown, ended, firstRun>>
  /\ UNCHANGED rest

(***************************************************************************)
(* downloadS3Object followed by scanContent (no await lies between).       *)
(***************************************************************************)
TooLargeMessage == "File size exceeds maximum allowed size"

\* contentLength >= MAX_FILE_SIZE: an object of exactly the cap is rejected.
ExceedsCap_AtLeast(size) == size >= MAX_FILE_SIZE

ExceedsCap(size) == size > MAX_FILE_SIZE

\* const fileEtag = etag || actualEtag
ResolveEtag(etag, actualEtag) == IF etag # <<>> THEN etag ELSE actualEtag

FetchThrows(w, calls, text) ==
  /\ pc' = [pc EXCEPT ![w] = "catch"]
  /\ loc' = [loc EXCEPT ![w].error = text]
  /\ log' = [log EXCEPT ![w] = @ \o calls \o <<Call("fetch", <<>>, text, FALSE)>>]
  /\ UNCHANGED <<queue, body, job_objects, findings, message, isShuttingDown,
                 ended, firstRun>>

FetchAndScan(w) ==
  /\ pc[w] = "fetch"
  /\ LET obj == S3Object(Cur(w).key)
         actualEtag == StripQuotes(obj.ETag)
         fileEtag == ResolveEtag(Cur(w).etag, actualEtag)
         found == scanContent(obj.matches, Cur(w).bucket, Cur(w).key, fileEtag,
                              Cur(w).job_id)
     IN
     \/ \* HeadObject throws
        /\ CanFault
        /\ faults' = faults + 1
        /\ \E text \in {"NetworkingError", NULL} :
             FetchThrows(w, <<Call("head", <<>>, NULL, FALSE)>>, text)
     \/ \* the size check throws
        /\ ExceedsCap(obj.size)
        /\ faults' = faults
        /\ FetchThrows(w, <<Call("head", <<>>, NULL, TRUE)>>, TooLargeMessage)
     \/ \* GetObject throws
        /\ ~ExceedsCap(obj.size)
        /\ CanFault
        /\ faults' = faults + 1
        /\ FetchThrows(w, <<Call("head", <<>>, NULL, TRUE),
                            Call("get", <<>>, NULL, FALSE)>>, "NetworkingError")
     \/ \* the object is returned and scanned
        /\ ~ExceedsCap(obj.size)
        /\ faults' = faults
        /\ pc' = [pc EXCEPT ![w] =
                    IF Len(found) > 0 THEN "insert" ELSE "markSucceeded"]
        /\ loc' = [loc EXCEPT ![w].fileEtag = fileEtag, ![w].findings = found,
                               ![w].idx = 1]
        /\ log' = [log EXCEPT ![w] =
                     @ \o <<Call("head", <<>>, NULL, TRUE),
                            Call("get", <<>>, NULL, TRUE),
                            Call("fetch", actualEtag, NULL, TRUE),
                            Call("scan", fileEtag, NULL, TRUE)>>]
        /\ UNCHANGED <<queue, body, job_objects, findings, message,
                       isShuttingDown, ended, firstRun>>
  /\ UNCHANGED rest

(***************************************************************************)
(* insertFindings: one INSERT per record, awaited one after the other; an  *)
(* INSERT that throws is logged and the loop goes on.                      *)
(***************************************************************************)
AfterInsert_NoStatus(w, last) == IF last THEN "delete" ELSE "insert"

AfterInsert(w, last) == IF last THEN "markSucceeded" ELSE "insert"

InsertOne(w) ==
  /\ pc[w] = "insert"
  /\ LET f == loc[w].findings[loc[w].idx]
         last == loc[w].idx = Len(loc[w].findings)
     IN
     \/ /\ findings' = InsertFinding(findings, f)
        /\ loc' = [loc EXCEPT ![w].idx = @ + 1,
                               ![w].insertedCount =
                                  @ + (Len(findings') - Len(findings))]
        /\ log' = [log EXCEPT ![w] = Append(@, Call("insert", f.etag, NULL, TRUE))]
        /\ pc' = [pc EXCEPT ![w] = AfterInsert(w, last)]
        /\ faults' = faults
     \/ /\ StoreFails(w)
        /\ faults' = FaultsAfter(w)
        /\ findings' = findings
        /\ loc' = [loc EXCEPT ![w].idx = @ + 1]
        /\ log' = [log EXCEPT ![w] = Append(@, Call("insert", f.etag, NULL, FALSE))]
        /\ pc' = [pc EXCEPT ![w] = AfterInsert(w, last)]
  /\ UNCHANGED <<queue, body, job_objects, message, isShuttingDown, ended, firstRun>>
  /\ UNCHANGED rest

\* await updateJobObjectStatus(job_id, bucket, key, fileEtag, 'succeeded')
MarkSucceeded(w) ==
  /\ pc[w] = "markSucceeded"
  /\ \/ /\ job_objects' = updateJobObjectStatus(job_objects, Cur(w).job_id,
                            Cur(w).bucket, Cur(w).key, loc[w].fileEtag,
                            "succeeded", NULL)
        /\ pc' = [pc EXCEPT ![w] = "delete"]
        /\ log' = [log EXCEPT ![w] =
                     Append(@, Call("status:succeeded", loc[w].fileEtag, NULL, TRUE))]
        /\ UNCHANGED <<loc, faults>>
     \/ /\ StoreFails(w)
        /\ faults' = FaultsAfter(w)
        /\ pc' = [pc EXCEPT ![w] = "catch"]
        /\ loc' = [loc EXCEPT ![w].error = "store error"]
        /\ log' = [log EXCEPT ![w] =
                     Append(@, Call("status:succeeded", loc[w].fileEtag, NULL, FALSE))]
        /\ UNCHANGED job_objects
  /\ UNCHANGED <<queue, body, findings, message, isShuttingDown, ended, firstRun>>
  /\ UNCHANGED rest

\* The number of findings rows of one object version.
RowsOf(rows, bucket, key, etag) ==
  Cardinality({i \in 1..Len(rows) :
                 rows[i].bucket = bucket /\ rows[i].key = key /\ rows[i].etag = etag})

\* The attempt ran through the try block: its succeeded write returned.
RanThrough(l) ==
  \E i \in 1..Len(l) : l[i].op = "status:succeeded" /\ l[i].ok

(***************************************************************************)
(* deleteMessage: a DeleteMessage that throws is logged and swallowed.     *)
(***************************************************************************)
DeleteMessage(w) ==
  /\ pc[w] = "delete"
  /\ \/ /\ queue' = Deleted(queue, message[w], loc[w].handle)
        /\ log' = [log EXCEPT ![w] = Append(@, Call("delete", <<>>, NULL, TRUE))]
        /\ faults' = faults
     \/ /\ CanFault
        /\ faults' = faults + 1
        /\ queue' = queue
        /\ log' = [log EXCEPT ![w] = Append(@, Call("delete", <<>>, NULL, FALSE))]
  /\ pc' = [pc EXCEPT ![w] = "return"]
  /\ ended' = [ended EXCEPT ![message[w]] = @ + 1]
  /\ firstRun' = [firstRun EXCEPT ![message[w]] =
                     IF @ = -1 /\ RanThrough(log[w])
                     THEN RowsOf(findings, Cur(w).bucket, Cur(w).key, loc[w].fileEtag)
                     ELSE @]
  /\ UNCHANGED <<body, job_objects, findings, message, loc, isShuttingDown>>
  /\ UNCHANGED rest

(***************************************************************************)
(* The catch block of processMessage: the status is written failed with    *)
(* the message's own entity-tag, a failure of that write is swallowed,     *)
(* and the message is left in the queue.                                   *)
(***************************************************************************)
HandleError_Delete(w) ==
  /\ pc[w] = "catch"
  /\ job_objects' = updateJobObjectStatus(job_objects, Cur(w).job_id,
                      Cur(w).bucket, Cur(w).key, Cur(w).etag,
                      "failed", ErrorMessage(loc[w].error))
  /\ log' = [log EXCEPT ![w] =
               Append(@, Call("status:failed", Cur(w).etag,
                              ErrorMessage(loc[w].error), TRUE))]
  /\ pc' = [pc EXCEPT ![w] = "delete"]
  /\ UNCHANGED <<queue, body, findings, message, loc, isShuttingDown, faults,
                 ended, firstRun>>
  /\ UNCHANGED rest

HandleError(w) ==
  /\ pc[w] = "catch"
  /\ \/ /\ job_objects' = updateJobObjectStatus(job_objects, Cur(w).job_id,
                            Cur(w).bucket, Cur(w).key, Cur(w).etag,
                            "failed", ErrorMessage(loc[w].error))
        /\ log' = [log EXCEPT ![w] =
                     Append(@, Call("status:failed", Cur(w).etag,
                                    ErrorMessage(loc[w].error), TRUE))]
        /\ faults' = faults
     \/ /\ StoreFails(w)
        /\ faults' = FaultsAfter(w)
        /\ job_objects' = job_objects
        /\ log' = [log EXCEPT ![w] =
                     Append(@, Call("status:failed", Cur(w).etag,
                                    ErrorMessage(loc[w].error), FALSE))]
  /\ pc' = [pc EXCEPT ![w] = "return"]
  /\ ended' = [ended EXCEPT ![message[w]] = @ + 1]
  /\ UNCHANGED <<queue, body, findings, message, loc, isShuttingDown, firstRun>>
  /\ UNCHANGED rest

\* while (true): the loop polls again whatever the flag says.
Return_KeepsPolling(w) ==
  /\ pc[w] \in {"return", "backoff"}
  /\ pc' = [pc EXCEPT ![w] = "poll"]
  /\ message' = [message EXCEPT ![w] = NoMsg]
  /\ loc' = [loc EXCEPT ![w] = InitLoc]
  /\ log' = [log EXCEPT ![w] = <<>>]
  /\ UNCHANGED <<queue, body, job_objects, findings, isShuttingDown, faults,
                 ended, firstRun>>
  /\ UNCHANGED rest

\* processMessage returns (or, from "backoff", the 5 s sleep of the catch of
\* pollQueue ends) and the loop polls again unless the flag is set.
Return(w) ==
  /\ pc[w] \in {"return", "backoff"}
  /\ pc' = [pc EXCEPT ![w] = IF isShuttingDown[w] THEN "stopped" ELSE "poll"]
  /\ message' = [message EXCEPT ![w] = NoMsg]
  /\ loc' = [loc EXCEPT ![w] = InitLoc]
  /\ log' = [log EXCEPT ![w] = <<>>]
  /\ UNCHANGED <<queue, body, job_objects, findings, isShuttingDown, faults,
                 ended, firstRun>>
  /\ UNCHANGED rest

(***************************************************************************)
(* shutdown(signal): the flag is set, a 2 s timer runs, closePool awaits   *)
(* pool.end(), and process.exit(0) ends the process wherever               *)
(* processMessage is suspended.  sd is the position of the handler.  A     *)
(* later signal starts a handler that finds the flag set and the pool      *)
(* ending, and changes nothing.                                            *)
(***************************************************************************)
\* The processes that receive signals or crash; the others are the rest of
\* the fleet, which keeps polling.
Stoppable == {"w1"}

\* The awaits of processMessage at which a store query is in flight.
StoreAwaits == {"markProcessing", "skip", "insert", "markSucceeded", "catch"}

\* How a process that stops now stands to the delete of the message it
\* holds: the receive count of the message, the receipt (h) the process
\* holds, and whether the message is already deleted.
StopMark(w) ==
  IF message[w] = NoMsg THEN stopped
  ELSE [stopped EXCEPT ![message[w]] =
          [when |-> IF "delete" \in Ops(log[w]) THEN "after"
                    ELSE IF pc[w] = "delete" THEN "during" ELSE "before",
           rc |-> queue[message[w]].rc,
           h |-> loc[w].handle,
           gone |-> queue[message[w]].st = "deleted"]]

\* isShuttingDown = true; the grace timer starts.
Shutdown(w) ==
  /\ w \in Stoppable
  /\ pc[w] # "exited"
  /\ sd[w] = "none"
  /\ isShuttingDown' = [isShuttingDown EXCEPT ![w] = TRUE]
  /\ sd' = [sd EXCEPT ![w] = "grace"]
  /\ UNCHANGED <<queue, body, job_objects, findings, pc, message, loc, log,
                 faults, ended, firstRun, jobs, ing, api, pool, stopped>>
  /\ UNCHANGED det

\* The 2 s have passed: closePool calls pool.end().
GraceEnds(w) ==
  /\ sd[w] = "grace"
  /\ pc[w] # "exited"
  /\ sd' = [sd EXCEPT ![w] = "closing"]
  /\ pool' = [pool EXCEPT ![w] = "ending"]
  /\ UNCHANGED <<queue, body, job_objects, findings, pc, message, loc, log,
                 isShuttingDown, faults, ended, firstRun, jobs, ing, api, stopped>>
  /\ UNCHANGED det

\* pool.end() resolves once no query is in flight; pool = null.
PoolClosed(w) ==
  /\ sd[w] = "closing"
  /\ pc[w] \notin StoreAwaits \cup {"exited"}
  /\ sd' = [sd EXCEPT ![w] = "closed"]
  /\ pool' = [pool EXCEPT ![w] = "closed"]
  /\ UNCHANGED <<queue, body, job_objects, findings, pc, message, loc, log,
                 isShuttingDown, faults, ended, firstRun, jobs, ing, api, stopped>>
  /\ UNCHANGED det

\* The process dies without running its handler (kill, out of memory, host
\* failure): a query or request in flight is lost.
Crash_Acks(w) ==
  /\ w \in Stoppable
  /\ pc[w] # "exited"
  /\ sd[w] \in {"none", "grace", "closing"}
  /\ pc' = [pc EXCEPT ![w] = "exited"]
  /\ sd' = [sd EXCEPT ![w] = "crashed"]
  /\ stopped' = StopMark(w)
  /\ queue' = IF message[w] = NoMsg THEN queue
              ELSE Deleted(queue, message[w], loc[w].handle)
  /\ message' = [message EXCEPT ![w] = NoMsg]
  /\ loc' = [loc EXCEPT ![w] = InitLoc]
  /\ log' = [log EXCEPT ![w] = <<>>]
  /\ UNCHANGED <<body, job_objects, findings, isShuttingDown, faults,
                 ended, firstRun, jobs, ing, api, pool>>
  /\ UNCHANGED det

Crash(w) ==
  /\ w \in Stoppable
  /\ pc[w] # "exited"
  /\ sd[w] \in {"none", "grace", "closing"}
  /\ pc' = [pc EXCEPT ![w] = "exited"]
  /\ sd' = [sd EXCEPT ![w] = "crashed"]
  /\ stopped' = StopMark(w)
  /\ message' = [message EXCEPT ![w] = NoMsg]
  /\ loc' = [loc EXCEPT ![w] = InitLoc]
  /\ log' = [log EXCEPT ![w] = <<>>]
  /\ UNCHANGED <<queue, body, job_objects, findings, isShuttingDown, faults,
                 ended, firstRun, jobs, ing, api, pool>>
  /\ UNCHANGED det

\* process.exit(0) without waiting for closePool.
Exit_NoClose(w) ==
  /\ sd[w] \in {"grace", "closing", "closed"}
  /\ pc[w] # "exited"
  /\ pc' = [pc EXCEPT ![w] = "exited"]
  /\ sd' = [sd EXCEPT ![w] = "exited"]
  /\ stopped' = StopMark(w)
  /\ message' = [message EXCEPT ![w] = NoMsg]
  /\ loc' = [loc EXCEPT ![w] = InitLoc]
  /\ log' = [log EXCEPT ![w] = <<>>]
  /\ UNCHANGED <<queue, body, job_objects, findings, isShuttingDown, faults,
                 ended, firstRun, jobs, ing, api, pool>>
  /\ UNCHANGED det

\* process.exit(0), right after closePool has returned.
Exit(w) ==
  /\ sd[w] = "closed"
  /\ pc[w] # "exited"
  /\ pc' = [pc EXCEPT ![w] = "exited"]
  /\ sd' = [sd EXCEPT ![w] = "exited"]
  /\ stopped' = StopMark(w)
  /\ message' = [message EXCEPT ![w] = NoMsg]
  /\ loc' = [loc EXCEPT ![w] = InitLoc]
  /\ log' = [log EXCEPT ![w] = <<>>]
  /\ UNCHANGED <<queue, body, job_objects, findings, isShuttingDown, faults,
                 ended, firstRun, jobs, ing, api, pool>>
  /\ UNCHANGED det

WorkerStep(w) ==
  \/ \E m \in MsgIds : Receive(w, m)
  \/ ReceiveFails(w)
  \/ MarkProcessing(w)
  \/ SkipUnsupported(w)
  \/ FetchAndScan(w)
  \/ InsertOne(w)
  \/ MarkSucceeded(w)
  \/ DeleteMessage(w)
  \/ HandleError(w)
  \/ Return(w)

QueueStep == \E m \in MsgIds : VisibilityTimeout(m) \/ MoveToDLQ(m)

Next ==
  \/ \E w \in Workers : WorkerStep(w)
  \/ QueueStep

Spec == Init /\ [][Next]_vars

\* One message in the queue; the worker processes run and the queue's timers
\* expire.  One body of each kind: a supported object, an unsupported one,
\* one above the size cap, a body without a key, and the bodies that are
\* not JSON, null, or a number.
FairBodies == {Catalogue[i] : i \in {1, 4, 5, 8, 9, 10, 11}}

InitOne == Init /\ queue["m2"].st = "absent" /\ body["m1"] \in FairBodies

FairSpec ==
  /\ InitOne
  /\ [][Next]_vars
  /\ \A w \in Workers : WF_vars(WorkerStep(w))
  /\ WF_vars(QueueStep)

(***************************************************************************)
(* The workers on the jobs that successful scan requests have left: each   *)
(* job has a row for every object of its listing and nothing else, and     *)
(* the queue holds one message per row.  A listing is empty, or has one    *)
(* object (supported, unsupported or above the cap); or two jobs have      *)
(* listed the same object version (no call fails in that run).             *)
(***************************************************************************)
JobScenarios ==
  { [msgs |-> <<>>, faults |-> 0], [msgs |-> <<1>>, faults |-> 0],
    [msgs |-> <<4>>, faults |-> 0], [msgs |-> <<5>>, faults |-> 0],
    [msgs |-> <<1, 2>>, faults |-> MaxFaults] }

MsgSeq == <<"m1", "m2">>

JobsInit ==
  /\ \E sc \in JobScenarios :
       LET listed == {Catalogue[sc.msgs[k]] : k \in 1..Len(sc.msgs)}
       IN  /\ body = [m \in MsgIds |->
                        IF m = "m2" /\ Len(sc.msgs) = 2 THEN Catalogue[sc.msgs[2]]
                        ELSE IF Len(sc.msgs) >= 1 THEN Catalogue[sc.msgs[1]]
                        ELSE Catalogue[1]]
           /\ queue = [m \in MsgIds |->
                         [st |-> IF \E k \in 1..Len(sc.msgs) : MsgSeq[k] = m
                                 THEN "visible" ELSE "absent",
                          rc |-> 0]]
           /\ job_objects = [r \in {RowKey(b.job_id, b.bucket, b.key, b.etag) :
                                      b \in listed} |->
                               [status |-> "queued", last_error |-> NULL]]
           /\ jobs = {"j1"} \cup {b.job_id : b \in listed}
           /\ faults = sc.faults
  /\ findings = <<>>
  /\ pc = [w \in Workers |-> "poll"]
  /\ message = [w \in Workers |-> NoMsg]
  /\ loc = [w \in Workers |-> InitLoc]
  /\ log = [w \in Workers |-> <<>>]
  /\ isShuttingDown = [w \in Workers |-> FALSE]
  /\ ended = [m \in MsgIds |-> 0]
  /\ firstRun = [m \in MsgIds |-> -1]
  /\ ing = Idle
  /\ api = Idle
  /\ sd = [w \in Workers |-> "none"]
  /\ pool = [w \in Workers |-> "open"]
  /\ stopped = [m \in MsgIds |-> NoStop]
  /\ det = Idle

JobsSpec == JobsInit /\ [][Next]_vars

\* The workers run and the timers of the queue expire; no call has failed
\* when the workers start.  A worker that can take a step takes one, and
\* scheduling forces no call to fail: the step that is bound to happen is
\* one whose calls succeed.
FairJobsInit == JobsInit /\ faults = 0

FairJobsSpec ==
  /\ FairJobsInit
  /\ [][Next]_vars
  /\ \A w \in Workers : WF_vars(WorkerStep(w) /\ faults' = faults)
  /\ WF_vars(QueueStep)

\* The same system with signals and crashes: the handler of a signalled
\* process runs beside its loop, and a poll that finds the flag set stops.
HandlerStep(w) ==
  \/ GraceEnds(w)
  \/ PoolClosed(w)
  \/ Exit(w)

ShutdownStep(w) == Shutdown(w) \/ HandlerStep(w)

NextShutdown ==
  \/ Next
  \/ \E w \in Workers : ShutdownStep(w)
  \/ \E w \in Workers : ReceiveNone(w)
  \/ \E w \in Workers : Crash(w)

\* One message: a supported object, an unsupported one or one above the cap.
ShutdownScenarios == {<<4, 0>>, <<1, MaxFaults>>}

ShutdownInit ==
  /\ \E sc \in ShutdownScenarios :
       /\ body = [m \in MsgIds |-> Catalogue[sc[1]]]
       /\ faults = sc[2]
  /\ queue = [m \in MsgIds |->
                [st |-> IF m = "m1" THEN "visible" ELSE "absent", rc |-> 0]]
  /\ job_objects = [r \in RowKeys |-> [status |-> "queued", last_error |-> NULL]]
  /\ findings = <<>>
  /\ pc = [w \in Workers |-> "poll"]
  /\ message = [w \in Workers |-> NoMsg]
  /\ loc = [w \in Workers |-> InitLoc]
  /\ log = [w \in Workers |-> <<>>]
  /\ isShuttingDown = [w \in Workers |-> FALSE]
  /\ ended = [m \in MsgIds |-> 0]
  /\ firstRun = [m \in MsgIds |-> -1]
  /\ jobs = {"j1", "j2"}
  /\ ing = Idle
  /\ api = Idle
  /\ sd = [w \in Workers |-> "none"]
  /\ pool = [w \in Workers |-> "open"]
  /\ stopped = [m \in MsgIds |-> NoStop]
  /\ det = Idle

ShutdownSpec == ShutdownInit /\ [][NextShutdown]_vars

\* The timer of the handler fires, pool.end() resolves and process.exit
\* runs; the loops run and the timers of the queue expire.
FairShutdownSpec ==
  /\ ShutdownInit
  /\ [][NextShutdown]_vars
  /\ \A w \in Workers : WF_vars(HandlerStep(w))
  /\ \A w \in Workers : WF_vars(WorkerStep(w) \/ ReceiveNone(w))
  /\ WF_vars(QueueStep)

(***************************************************************************)
(* The scan handler (POST /scan): the ingestor.  One step per await: the   *)
(* INSERT of the job row, each ListObjectsV2 page, each INSERT of a        *)
(* job_object row and each SendMessageBatch.                               *)
(***************************************************************************)
MaxScans == 2

batchSize == 10

JobIds == <<"j1", "j2", "j3", "j4">>

\* A value is falsy in `!bucket` and `prefix || ''` when undefined or empty.
Truthy(v) == v \notin {NULL, ""}

\* event.body: absent (undefined), a string that is not JSON, the JSON text
\* null, or an object with the fields bucket and prefix (NULL is undefined).
Request(kind, bucket, prefix) == [kind |-> kind, bucket |-> bucket, prefix |-> prefix]

Requests ==
  { Request("absent", NULL, NULL), Request("garbage", NULL, NULL),
    Request("null", NULL, NULL), Request("object", NULL, "p"),
    Request("object", "", NULL), Request("object", "bk", NULL),
    Request("object", "bk", "p") }

\* JSON.parse(event.body) throws, or the destructuring of null does.
RequestThrows(req) == req.kind \in {"garbage", "null"}

Digits == <<"1", "2", "3", "4", "5", "6", "7", "8", "9", "a", "b">>

Obj(key, size, etag) == [Key |-> key, Size |-> size, ETag |-> <<"\"", etag, "\"">>]

\* What ListObjectsV2 returns for the bucket and prefix: a sequence of
\* pages, the last one without NextContinuationToken.  A page may have no
\* Contents; a zero-size object is a folder marker or an empty file.
Listings ==
  << << <<>> >>,
     << << Obj(<<"d", "/">>, 0, "e0") >> >>,
     << << Obj(<<"d", "/">>, 0, "e0"), Obj(K_TXT, MAX_FILE_SIZE, "e1") >>,
        <<>>,
        << Obj(K_PDF, 1, "e2") >> >>,
     << [n \in 1..(batchSize + 1) |-> Obj(<<"o", Digits[n]>>, n, "e5")] >> >>

\* response.Contents.filter(obj => obj.Size > 0)
NonEmptyObjects(contents) == SelectSeq(contents, LAMBDA obj : obj.Size > 0)

IngInit ==
  [pc |-> "idle", n |-> 0, req |-> NULL, listing |-> 0, jobId |-> NULL,
   page |-> 0, objects |-> <<>>, i |-> 0, sentCount |-> 0, resp |-> NULL,
   before |-> NULL, batches |-> <<>>]

\* The response of a handler: status code and the fields of its JSON body.
Response(code, fields) == [statusCode |-> code, body |-> fields]

Respond(code, fields) ==
  ing' = [ing EXCEPT !.pc = "done", !.resp = Response(code, fields)]

InternalError == [error |-> "Internal server error"]

\* Any throw inside the handler is answered with 500 by its catch.
IngestThrows ==
  /\ CanFault
  /\ faults' = faults + 1
  /\ Respond(500, InternalError)

\* Lines 312-336: parse the body, validate the bucket, generate the job id.
ScanRequest(req, l) ==
  /\ ing.pc \in {"idle", "done"}
  /\ ing.n < MaxScans
  /\ LET start == [IngInit EXCEPT !.n = ing.n + 1, !.req = req, !.listing = l,
                                   !.before = <<jobs, job_objects, queue, body>>]
     IN  ing' = IF RequestThrows(req)
                  THEN [start EXCEPT !.pc = "done",
                                     !.resp = Response(500, InternalError)]
                ELSE IF ~Truthy(req.bucket)
                  THEN [start EXCEPT !.pc = "done",
                          !.resp = Response(400, [error |-> "Missing required field: bucket"])]
                ELSE [start EXCEPT !.pc = "insertJob", !.jobId = JobIds[ing.n + 1]]
  /\ UNCHANGED <<queue, body, job_objects, findings, jobs, faults, api, workerVars>>

\* INSERT INTO jobs (job_id, bucket, prefix, created_at, updated_at)
InsertJob ==
  /\ ing.pc = "insertJob"
  /\ \/ /\ jobs' = jobs \cup {ing.jobId}
        /\ ing' = [ing EXCEPT !.pc = "list", !.page = 1]
        /\ faults' = faults
     \/ IngestThrows /\ jobs' = jobs
  /\ UNCHANGED <<queue, body, job_objects, findings, api, workerVars>>

\* After the listing: the early return of an empty listing, or the inserts.
AfterListing_NoRows(objects) ==
  IF Len(objects) = 0 THEN "respondEmpty" ELSE "enqueue"

AfterListing(objects) ==
  IF Len(objects) = 0 THEN "respondEmpty" ELSE "insertObjects"

\* listS3Objects: one ListObjectsV2 response per step, following the
\* continuation token; the handler goes on when there is none.
ListPage ==
  /\ ing.pc = "list"
  /\ \/ LET pages == Listings[ing.listing]
            objects == ing.objects \o NonEmptyObjects(pages[ing.page])
        IN  /\ faults' = faults
            /\ IF ing.page < Len(pages)
               THEN ing' = [ing EXCEPT !.objects = objects, !.page = @ + 1]
               ELSE IF AfterListing(objects) = "respondEmpty"
               THEN ing' = [ing EXCEPT !.objects = objects, !.pc = "done",
                               !.resp = Response(200,
                                  [job_id |-> ing.jobId,
                                   message |-> "No objects found to scan",
                                   object_count |-> 0])]
               ELSE ing' = [ing EXCEPT !.objects = objects, !.i = 1,
                                       !.pc = AfterListing(objects)]
     \/ IngestThrows
  /\ UNCHANGED <<queue, body, job_objects, findings, jobs, api, workerVars>>

\* ON CONFLICT (job_id, bucket, key, etag) DO UPDATE SET status = 'queued',
\* last_error = NULL: a row in conflict is queued again.
UpsertJobObject_Requeue(tbl, r) ==
  [x \in DOMAIN tbl \cup {r} |->
     IF x = r THEN [status |-> "queued", last_error |-> NULL] ELSE tbl[x]]

\* INSERT INTO job_objects ... 'queued' ... ON CONFLICT (job_id, bucket,
\* key, etag) DO NOTHING
UpsertJobObject(tbl, r) ==
  IF r \in DOMAIN tbl THEN tbl
  ELSE [x \in DOMAIN tbl \cup {r} |->
          IF x = r THEN [status |-> "queued", last_error |-> NULL] ELSE tbl[x]]

InsertJobObject ==
  /\ ing.pc = "insertObjects"
  /\ \/ LET obj == ing.objects[ing.i]
        IN  /\ job_objects' =
                 UpsertJobObject(job_objects,
                   RowKey(ing.jobId, ing.req.bucket, obj.Key, StripQuotes(obj.ETag)))
            /\ ing' = [ing EXCEPT !.i = IF @ = Len(ing.objects) THEN 1 ELSE @ + 1,
                                  !.pc = IF ing.i = Len(ing.objects)
                                         THEN "enqueue" ELSE "insertObjects"]
            /\ faults' = faults
     \/ IngestThrows /\ job_objects' = job_objects
  /\ UNCHANGED <<queue, body, findings, jobs, api, workerVars>>

\* objects.slice(i, i + batchSize + 1): a batch takes one object more, which
\* is also the first object of the next batch.
Entries_Overlap(jobId, bucket, objects, i) ==
  LET last == IF i + batchSize < Len(objects)
              THEN i + batchSize ELSE Len(objects)
  IN  [k \in 1..(last - i + 1) |->
         [Id |-> i + k - 2,
          MessageBody |-> Body("object", jobId, bucket, objects[i + k - 1].Key,
                               StripQuotes(objects[i + k - 1].ETag))]]

\* enqueueObjects: the entries of the batch that starts at the i-th object
\* (Id is the 0-based position of the object in the listing).
Entries(jobId, bucket, objects, i) ==
  LET last == IF i + batchSize - 1 < Len(objects)
              THEN i + batchSize - 1 ELSE Len(objects)
  IN  [k \in 1..(last - i + 1) |->
         [Id |-> i + k - 2,
          MessageBody |-> Body("object", jobId, bucket, objects[i + k - 1].Key,
                               StripQuotes(objects[i + k - 1].ETag))]]

\* The entries the queue accepted, in the order of the batch.
Accepted(entries, ok) == SelectSeq(entries, LAMBDA e : e.Id \in ok)

Publish(entries, ok) ==
  LET sent == Accepted(entries, ok)
  IN  /\ queue' = queue \o [k \in 1..Len(sent) |-> [st |-> "visible", rc |-> 0]]
      /\ body' = body \o [k \in 1..Len(sent) |-> sent[k].MessageBody]

\* One SendMessageBatch.  The response lists the entries that succeeded and
\* those that failed; a call that throws may have been carried out or not.
\* ing.batches keeps the Entries of every command sent.
SendBatch ==
  /\ ing.pc = "enqueue"
  /\ LET entries == Entries(ing.jobId, ing.req.bucket, ing.objects, ing.i)
         ids == {entries[k].Id : k \in 1..Len(entries)}
     IN
     \/ \E failed \in {{}} \cup {{id} : id \in ids} :
          LET sentCount == ing.sentCount + Cardinality(ids \ failed)
          IN  /\ Publish(entries, ids \ failed)
              /\ faults' = faults
              /\ IF ing.i + batchSize <= Len(ing.objects)
                 THEN ing' = [ing EXCEPT !.i = @ + batchSize, !.sentCount = sentCount,
                                         !.batches = Append(@, entries)]
                 ELSE ing' = [ing EXCEPT !.sentCount = sentCount, !.pc = "done",
                                 !.batches = Append(@, entries),
                                 !.resp = Response(200,
                                    [job_id |-> ing.jobId,
                                     message |-> "Scan initiated successfully",
                                     object_count |-> Len(ing.objects),
                                     enqueued_count |-> sentCount])]
     \/ /\ CanFault
        /\ faults' = faults + 1
        /\ ing' = [ing EXCEPT !.pc = "done", !.batches = Append(@, entries),
                               !.resp = Response(500, InternalError)]
        /\ \E ok \in {{}, ids} : Publish(entries, ok)
  /\ UNCHANGED <<job_objects, findings, jobs, api, workerVars>>

IngestStep ==
  \/ \E req \in Requests, l \in 1..Len(Listings) : ScanRequest(req, l)
  \/ InsertJob
  \/ ListPage
  \/ InsertJobObject
  \/ SendBatch

\* Nothing has been scanned yet: the tables and the queue are empty.
IngestInit ==
  /\ queue = <<>>
  /\ body = <<>>
  /\ job_objects = <<>>
  /\ findings = <<>>
  /\ jobs = {}
  /\ ing = IngInit
  /\ api = Idle
  /\ faults = 0
  /\ pc = [w \in Workers |-> "poll"]
  /\ message = [w \in Workers |-> NoMsg]
  /\ loc = [w \in Workers |-> InitLoc]
  /\ log = [w \in Workers |-> <<>>]
  /\ isShuttingDown = [w \in Workers |-> FALSE]
  /\ ended = <<>>
  /\ firstRun = <<>>
  /\ sd = [w \in Workers |-> "none"]
  /\ pool = [w \in Workers |-> "open"]
  /\ stopped = <<>>
  /\ det = Idle

IngestNext == IngestStep

IngestSpec == IngestInit /\ [][IngestNext]_vars

(***************************************************************************)
(* The insert loop of the scan handler as a statement sequence: the loop   *)
(* runs over any sequence of listed objects against a job_objects table    *)
(* that may already hold rows of the natural keys, in any status.          *)
(***************************************************************************)
UpsertObjects == {Obj(K_TXT, MAX_FILE_SIZE, "e1"), Obj(K_PDF, 1, "e2")}

UpsertKeys == {RowKey("j1", "bk", o.Key, StripQuotes(o.ETag)) : o \in UpsertObjects}

PriorRows ==
  { [status |-> "queued", last_error |-> NULL],
    [status |-> "processing", last_error |-> NULL],
    [status |-> "succeeded", last_error |-> SkipNote],
    [status |-> "failed", last_error |-> "store error"] }

PriorTables == UNION {[K -> PriorRows] : K \in SUBSET UpsertKeys}

MaxListed == 3

ObjectLists == UNION {[1..n -> UpsertObjects] : n \in 1..MaxListed}

UpsertInit ==
  /\ job_objects \in PriorTables
  /\ \E objects \in ObjectLists :
       ing = [IngInit EXCEPT !.pc = "insertObjects", !.n = 1,
                             !.req = Request("object", "bk", NULL),
                             !.jobId = "j1", !.objects = objects, !.i = 1,
                             !.before = job_objects]
  /\ jobs = {"j1"}
  /\ queue = <<>>
  /\ body = <<>>
  /\ findings = <<>>
  /\ api = Idle
  /\ faults = 0
  /\ pc = [w \in Workers |-> "poll"]
  /\ message = [w \in Workers |-> NoMsg]
  /\ loc = [w \in Workers |-> InitLoc]
  /\ log = [w \in Workers |-> <<>>]
  /\ isShuttingDown = [w \in Workers |-> FALSE]
  /\ ended = <<>>
  /\ firstRun = <<>>
  /\ sd = [w \in Workers |-> "none"]
  /\ pool = [w \in Workers |-> "open"]
  /\ stopped = <<>>
  /\ det = Idle

UpsertNext == InsertJobObject

UpsertSpec == UpsertInit /\ [][UpsertNext]_vars

(***************************************************************************)
(* The store operations on job_objects and the jobs handler (GET           *)
(* /jobs/{job_id}) over a job with three objects, a job with one and a     *)
(* job with none; the status writes are arbitrary calls of                 *)
(* updateJobObjectStatus.                                                  *)
(***************************************************************************)
Statuses == {"queued", "processing", "succeeded", "failed"}

StatusRows ==
  { RowKey("j1", "bk", K_TXT, <<"e1">>), RowKey("j1", "bk", K_PDF, <<"e2">>),
    RowKey("j1", "bk", K_CSV, <<"e4">>), RowKey("j2", "bk", K_TXT, <<"e1">>) }

\* A natural key that has no row: the UPDATE matches nothing.
NoRow == RowKey("j3", "bk", K_TXT, <<"e1">>)

Finding(id, jobId, key, etag, detector, offset) ==
  [id |-> id, job_id |-> jobId, bucket |-> "bk", key |-> key, etag |-> etag,
   detector |-> detector, byte_offset |-> offset]

StatusInit ==
  /\ jobs = {"j1", "j2", "j3"}
  /\ job_objects = [r \in StatusRows |-> [status |-> "queued", last_error |-> NULL]]
  /\ findings = << Finding(1, "j1", K_TXT, <<"e1">>, "SSN", 20),
                   Finding(2, "j1", K_TXT, <<"e1">>, "EMAIL", 5) >>
  /\ queue = <<>>
  /\ body = <<>>
  /\ ing = Idle
  /\ api = Idle
  /\ faults = 0
  /\ pc = [w \in Workers |-> "poll"]
  /\ message = [w \in Workers |-> NoMsg]
  /\ loc = [w \in Workers |-> InitLoc]
  /\ log = [w \in Workers |-> <<>>]
  /\ isShuttingDown = [w \in Workers |-> FALSE]
  /\ ended = <<>>
  /\ firstRun = <<>>
  /\ sd = [w \in Workers |-> "none"]
  /\ pool = [w \in Workers |-> "open"]
  /\ stopped = <<>>
  /\ det = Idle

\* One call updateJobObjectStatus(jobId, bucket, key, etag, status, error);
\* api records the call and the status the row had before it.
SetObjectStatus(r, status, error) ==
  /\ job_objects' = updateJobObjectStatus(job_objects, r[1], r[2], r[3], r[4],
                                          status, error)
  /\ api' = [pc |-> "set", row |-> r, status |-> status, error |-> error,
             was |-> IF r \in DOMAIN job_objects THEN job_objects[r].status ELSE NULL]
  /\ UNCHANGED <<queue, body, findings, faults, jobs, ing, workerVars>>

\* SELECT status, COUNT(*) ... GROUP BY status: one row per status present.
CountRows(jobId) ==
  { <<st, Cardinality({r \in DOMAIN job_objects :
                         r[1] = jobId /\ job_objects[r].status = st})>> :
      st \in {job_objects[r].status : r \in {x \in DOMAIN job_objects : x[1] = jobId}} }

\* counts = {queued: 0, processing: 0, succeeded: 0, failed: 0}, then
\* counts[row.status] = parseInt(row.count) for each row of the result.
Counts(rows) ==
  [st \in Statuses \cup {row[1] : row \in rows} |->
     IF \E row \in rows : row[1] = st
     THEN (CHOOSE row \in rows : row[1] = st)[2]
     ELSE 0]

\* The test on totalCount dropped from the first branch.
OverallStatus_NoTotalCheck(counts, totalCount, completedCount) ==
  IF completedCount = totalCount THEN "completed"
  ELSE IF counts.queued = totalCount /\ totalCount > 0 THEN "pending"
  ELSE "running"

OverallStatus(counts, totalCount, completedCount) ==
  IF completedCount = totalCount /\ totalCount > 0 THEN "completed"
  ELSE IF counts.queued = totalCount /\ totalCount > 0 THEN "pending"
  ELSE "running"

\* Math.round((completedCount / totalCount) * 100), 0 when there is no row.
Percentage(totalCount, completedCount) ==
  IF totalCount > 0 THEN (200 * completedCount + totalCount) \div (2 * totalCount)
  ELSE 0

\* The job ids a client may ask for: absent, not a UUID, unknown, known.
JobIdParams == {NULL, "not-a-uuid", "j1", "j2", "j3", "j4"}

IsUuid(jobId) == jobId \in {JobIds[i] : i \in 1..Len(JobIds)}

\* SELECT COUNT(*) FROM findings WHERE job_id = $1.
findingsCount(jobId) ==
  Cardinality({i \in 1..Len(findings) : findings[i].job_id = jobId})

GetJobResponse(jobId) ==
  IF jobId = NULL THEN Response(400, [error |-> "Missing job_id path parameter"])
  ELSE IF ~IsUuid(jobId) THEN Response(400, [error |-> "Invalid job_id format"])
  ELSE IF jobId \notin jobs THEN Response(404, [error |-> "Job not found"])
  ELSE LET counts == Counts(CountRows(jobId))
           totalCount == counts.queued + counts.processing + counts.succeeded
                           + counts.failed
           completedCount == counts.succeeded + counts.failed
       IN  Response(200,
             [job_id |-> jobId,
              status |-> OverallStatus(counts, totalCount, completedCount),
              progress |-> [total |-> totalCount, completed |-> completedCount,
                            percentage |-> Percentage(totalCount, completedCount)],
              counts |-> counts,
              findings_count |-> findingsCount(jobId)])

GetJob(jobId) ==
  /\ api' = [pc |-> "getJob", jobId |-> jobId, resp |-> GetJobResponse(jobId)]
  /\ UNCHANGED <<queue, body, job_objects, findings, faults, jobs, ing, workerVars>>

\* Lines 69-83 of the handler on the counts of a job of any size: the
\* totals, the percentage and the overall status.
MaxCount == 400

CountValues == {0, 1, 2, 199, 200, MaxCount - 1, MaxCount}

Summarise(queued, processing, succeeded, failed) ==
  /\ api.pc = "idle"
  /\ LET counts == [queued |-> queued, processing |-> processing,
                    succeeded |-> succeeded, failed |-> failed]
         totalCount == counts.queued + counts.processing + counts.succeeded
                         + counts.failed
         completedCount == counts.succeeded + counts.failed
     IN  api' = [pc |-> "summary", counts |-> counts,
                 status |-> OverallStatus(counts, totalCount, completedCount),
                 progress |-> [total |-> totalCount, completed |-> completedCount,
                               percentage |-> Percentage(totalCount, completedCount)]]
  /\ UNCHANGED <<queue, body, job_objects, findings, faults, jobs, ing, workerVars>>

StatusNext ==
  \/ \E r \in StatusRows \cup {NoRow}, st \in Statuses, e \in {NULL, "boom"} :
       SetObjectStatus(r, st, e)
  \/ \E jobId \in JobIdParams : GetJob(jobId)
  \/ \E queued, processing, succeeded, failed \in CountValues :
       Summarise(queued, processing, succeeded, failed)

StatusSpec == StatusInit /\ [][StatusNext]_vars

(***************************************************************************)
(* The results handler (GET /results) and a client that follows            *)
(* next_cursor.  Query-string parameters are strings: absent, empty, a     *)
(* decimal number or some other text; parseInt makes a number or NaN.      *)
(***************************************************************************)
MaxRows == 6

Absent == [kind |-> "absent", v |-> 0]
StrEmpty == [kind |-> "empty", v |-> 0]
StrText == [kind |-> "text", v |-> 0]
StrNum(n) == [kind |-> "num", v |-> n]

NaN == [nan |-> TRUE, v |-> 0]
Num(n) == [nan |-> FALSE, v |-> n]

\* A string is falsy when absent (undefined) or empty.
Given(str) == str.kind \notin {"absent", "empty"}

parseInt(str) == IF str.kind = "num" THEN Num(str.v) ELSE NaN

\* row.id.toString(): the decimal string of the id.
toString(n) == StrNum(n)

\* const limit = parseInt(params.limit || "100")
LimitOf(param) == IF Given(param) THEN parseInt(param) ELSE Num(100)

\* limit < 1 || limit > 1000: both comparisons are false for NaN.
LimitOutOfRange(limit) == ~limit.nan /\ (limit.v < 1 \/ limit.v > 1000)

\* const cursor = params.cursor ? parseInt(params.cursor) : null, and the
\* test `if (cursor)`: null, NaN and 0 add no condition on id.
HasCursor(param) ==
  Given(param) /\ ~parseInt(param).nan /\ parseInt(param).v # 0

\* AND id >= $n
AfterCursor_Inclusive(id, param) == HasCursor(param) => id >= parseInt(param).v

\* AND id > $n
AfterCursor(id, param) == HasCursor(param) => id > parseInt(param).v

\* key LIKE pattern: % matches any run of characters, _ any one character.
RECURSIVE Like(_, _)
Like(str, pattern) ==
  IF pattern = <<>> THEN str = <<>>
  ELSE IF Head(pattern) = "%"
    THEN Like(str, Tail(pattern)) \/ (str # <<>> /\ Like(Tail(str), pattern))
  ELSE /\ str # <<>>
       /\ Head(pattern) = "_" \/ Head(pattern) = Head(str)
       /\ Like(Tail(str), Tail(pattern))

\* The WHERE clause without the cursor: bucket = $n and key LIKE prefix%.
Matches(row, bucket, prefix) ==
  /\ bucket # "" => row.bucket = bucket
  /\ prefix # <<>> => Like(row.key, prefix \o <<"%">>)

\* ORDER BY id ASC LIMIT n over the rows that satisfy the WHERE clause (the
\* table is kept in id order).
Query(rows, bucket, prefix, cursor, n) ==
  LET hit == SelectSeq(rows, LAMBDA row :
                 Matches(row, bucket, prefix) /\ AfterCursor(row.id, cursor))
  IN  SubSeq(hit, 1, IF Len(hit) < n THEN Len(hit) ELSE n)

\* next_cursor set whenever the page has a row.
NextCursor_NonEmpty(page, limit) ==
  IF Len(page) > 0 THEN page[Len(page)].id ELSE Absent

\* nextCursor = findings.length === limit ? findings[last].id : null
NextCursor(page, limit) ==
  IF Len(page) = limit THEN page[Len(page)].id ELSE Absent

ListFindingsResponse(bucket, prefix, limitParam, cursorParam) ==
  LET limit == LimitOf(limitParam)
  IN  IF LimitOutOfRange(limit)
        THEN Response(400, [error |-> "Limit must be between 1 and 1000"])
      ELSE IF limit.nan THEN Response(500, InternalError)
      ELSE LET rows == Query(findings, bucket, prefix, cursorParam, limit.v)
               page == [i \in 1..Len(rows) |->
                          [rows[i] EXCEPT !.id = toString(rows[i].id)]]
           IN  Response(200, [findings |-> page, count |-> Len(page),
                              next_cursor |-> NextCursor(page, limit.v)])

\* The rows a findings table is drawn from: ids leave gaps (a sequence
\* value is used up by an INSERT that meets a conflict).
RowPool ==
  << Finding(1, "j1", K_TXT, <<"e1">>, "SSN", 20),
     [Finding(2, "j1", K_TXT, <<"e1">>, "EMAIL", 5) EXCEPT !.bucket = "b2"],
     Finding(4, "j1", K_PDF, <<"e2">>, "AWS_ACCESS_KEY", 0),
     Finding(7, "j2", K_TXT, <<"e9">>, "EMAIL", 5),
     Finding(8, "j1", <<"a", "b">>, <<"e2">>, "EMAIL", 1) >>

Tables ==
  { SelectSeq(RowPool, LAMBDA row : row.id \in ids) : ids \in SUBSET {1, 2, 4, 7, 8} }

FindingsInit ==
  /\ findings \in Tables
  /\ jobs = {"j1", "j2"}
  /\ job_objects = <<>>
  /\ queue = <<>>
  /\ body = <<>>
  /\ ing = Idle
  /\ api = Idle
  /\ faults = 0
  /\ pc = [w \in Workers |-> "poll"]
  /\ message = [w \in Workers |-> NoMsg]
  /\ loc = [w \in Workers |-> InitLoc]
  /\ log = [w \in Workers |-> <<>>]
  /\ isShuttingDown = [w \in Workers |-> FALSE]
  /\ ended = <<>>
  /\ firstRun = <<>>
  /\ sd = [w \in Workers |-> "none"]
  /\ pool = [w \in Workers |-> "open"]
  /\ stopped = <<>>
  /\ det = Idle

\* The client starts to read the findings: filters and limit, no cursor.
StartListing(bucket, prefix, limitParam) ==
  /\ api.pc = "idle"
  /\ api' = [pc |-> "listing", bucket |-> bucket, prefix |-> prefix,
             limit |-> limitParam, cursor |-> Absent, seen |-> <<>>,
             calls |-> 0, inserted |-> FALSE, resp |-> NULL]
  /\ UNCHANGED <<queue, body, job_objects, findings, faults, jobs, ing, workerVars>>

\* One GET /results with the cursor of the previous response; the client
\* stops when next_cursor is null or the request is refused.
ListFindings ==
  /\ api.pc = "listing"
  /\ LET resp == ListFindingsResponse(api.bucket, api.prefix, api.limit, api.cursor)
     IN  IF resp.statusCode = 200
         THEN api' = [api EXCEPT
                        !.resp = resp,
                        !.calls = @ + 1,
                        !.seen = @ \o [i \in 1..resp.body.count |->
                                         parseInt(resp.body.findings[i].id).v],
                        !.cursor = resp.body.next_cursor,
                        !.pc = IF Given(resp.body.next_cursor) THEN "listing" ELSE "end"]
         ELSE api' = [api EXCEPT !.resp = resp, !.calls = @ + 1, !.pc = "refused"]
  /\ UNCHANGED <<queue, body, job_objects, findings, faults, jobs, ing, workerVars>>

\* A worker inserts a findings row while the client reads: the id is the
\* next value of the sequence, or a later one.
InsertRow(gap) ==
  /\ api.pc = "listing"
  /\ Len(findings) < MaxRows
  /\ LET last == IF findings = <<>> THEN 0 ELSE findings[Len(findings)].id
     IN  findings' = Append(findings,
                       Finding(last + gap, "j2", K_TXT,
                               <<"e1">>, "US_PHONE", last))
  /\ api' = [api EXCEPT !.inserted = TRUE]
  /\ UNCHANGED <<queue, body, job_objects, faults, jobs, ing, workerVars>>

LimitParams == {Absent, StrEmpty, StrText, StrNum(0), StrNum(1), StrNum(2), StrNum(1001)}

FindingsNext ==
  \/ \E bucket \in {"", "bk"}, prefix \in {<<>>, <<"a">>, <<"a", "_">>},
        limitParam \in LimitParams :
       StartListing(bucket, prefix, limitParam)
  \/ ListFindings
  \/ \E gap \in 1..2 : InsertRow(gap)

FindingsSpec == FindingsInit /\ [][FindingsNext]_vars

(***************************************************************************)
(* The detectors on text (detectors.js).  A text is a sequence of          *)
(* characters; a candidate is a match of a detector's pattern, given by    *)
(* its text and its index in the content.                                  *)
(***************************************************************************)
MaxDigits == 20

contextSize == 100

DigitChars == <<"0", "1", "2", "3", "4", "5", "6", "7", "8", "9">>

IsDigit(c) == \E i \in 1..Len(DigitChars) : DigitChars[i] = c

\* parseInt(digits[i])
DigitValue(c) == (CHOOSE i \in 1..Len(DigitChars) : DigitChars[i] = c) - 1

\* cardNumber.replace(/\D/g, "")
StripNonDigits(s) == SelectSeq(s, IsDigit)

\* The for loop of luhnCheck, from the rightmost digit: i is the 1-based
\* position, isEven the toggle.
RECURSIVE luhnLoop(_, _, _, _)
luhnLoop(digits, i, sum, isEven) ==
  IF i < 1 THEN sum
  ELSE LET digit == DigitValue(digits[i])
           doubled == IF digit * 2 > 9 THEN digit * 2 - 9 ELSE digit * 2
       IN  luhnLoop(digits, i - 1, sum + (IF isEven THEN doubled ELSE digit),
                    ~isEven)

\* let isEven = true: the doubling starts at the rightmost digit.
luhnCheck_FromLast(cardNumber) ==
  LET digits == StripNonDigits(cardNumber)
  IN  IF Len(digits) < 13 \/ Len(digits) > 19 THEN FALSE
      ELSE luhnLoop(digits, Len(digits), 0, TRUE) % 10 = 0

luhnCheck(cardNumber) ==
  LET digits == StripNonDigits(cardNumber)
  IN  IF Len(digits) < 13 \/ Len(digits) > 19 THEN FALSE
      ELSE luhnLoop(digits, Len(digits), 0, FALSE) % 10 = 0

\* contextKeywords of each detector; none for AWS_ACCESS_KEY and EMAIL (null).
contextKeywords(d) ==
  CASE d = "SSN" ->
         { <<"s", "s", "n">>,
           <<"s", "o", "c", "i", "a", "l", " ", "s", "e", "c", "u", "r", "i", "t", "y">>,
           <<"s", "o", "c", "i", "a", "l", "-", "s", "e", "c", "u", "r", "i", "t", "y">>,
           <<"s", "s", "#">>,
           <<"s", "s", " ", "#">> }
    [] d = "CREDIT_CARD" ->
         { <<"c", "a", "r", "d">>,
           <<"c", "r", "e", "d", "i", "t">>,
           <<"v", "i", "s", "a">>,
           <<"m", "a", "s", "t", "e", "r", "c", "a", "r", "d">>,
           <<"a", "m", "e", "x">>,
           <<"d", "i", "s", "c", "o", "v", "e", "r">>,
           <<"p", "a", "y", "m", "e", "n", "t">> }
    [] d = "AWS_SECRET_KEY" ->
         { <<"s", "e", "c", "r", "e", "t">>,
           <<"a", "w", "s", "_", "s", "e", "c", "r", "e", "t">>,
           <<"s", "e", "c", "r", "e", "t", "_", "a", "c", "c", "e", "s", "s", "_", "k", "e", "y">> }
    [] d = "US_PHONE" ->
         { <<"p", "h", "o", "n", "e">>,
           <<"t", "e", "l">>,
           <<"t", "e", "l", "e", "p", "h", "o", "n", "e">>,
           <<"m", "o", "b", "i", "l", "e">>,
           <<"c", "e", "l", "l">> }
    [] OTHER -> {}

Whitespace == {" ", "\n", "\t", "\r"}

RECURSIVE trim(_)
trim(s) ==
  IF s = <<>> THEN s
  ELSE IF Head(s) \in Whitespace THEN trim(Tail(s))
  ELSE IF s[Len(s)] \in Whitespace THEN trim(SubSeq(s, 1, Len(s) - 1))
  ELSE s

Max(a, b) == IF a > b THEN a ELSE b
Min(a, b) == IF a < b THEN a ELSE b

\* content.slice(start, end) with 0-based start and exclusive end.
Slice2(s, start, end) == SubSeq(s, start + 1, end)

\* content.slice(start, end).replace(/\n/g, " ").trim()
getContext(content, matchIndex, size) ==
  LET start == Max(0, matchIndex - size)
      end == Min(Len(content), matchIndex + size)
      cut == Slice2(content, start, end)
  IN  trim([i \in 1..Len(cut) |-> IF cut[i] = "\n" THEN " " ELSE cut[i]])

\* String.prototype.includes
includes(s, k) ==
  \E i \in 0..(Len(s) - Len(k)) : SubSeq(s, i + 1, i + Len(k)) = k

\* hasContextKeywords(context, keywords): true without keywords.
hasContextKeywords(context, keywords) ==
  IF keywords = {} THEN TRUE
  ELSE \E keyword \in keywords :
         includes(toLowerCase(context), toLowerCase(keyword))

\* One iteration of a match loop of scanContent: the functions it calls, in
\* order, and whether it pushes a finding.
ScanMatch(d, content, text, index) ==
  CASE d = "CREDIT_CARD" ->
         IF luhnCheck(text)
         THEN [calls |-> <<"validate", "getContext", "hasContextKeywords">>,
               found |-> hasContextKeywords(getContext(content, index, contextSize),
                                            contextKeywords(d))]
         ELSE [calls |-> <<"validate">>, found |-> FALSE]
    [] d \in {"SSN", "AWS_SECRET_KEY", "US_PHONE"} ->
         [calls |-> <<"getContext", "hasContextKeywords">>,
          found |-> hasContextKeywords(getContext(content, index, contextSize),
                                       contextKeywords(d))]
    [] OTHER ->
         [calls |-> <<"getContext">>, found |-> TRUE]

(***************************************************************************)
(* The patterns of US_PHONE.  A pattern is a sequence of tokens: "B" is    *)
(* \b, "D" is \d, "S" is \s*, any other token is that character.  A       *)
(* position is the 0-based index of the next character.                    *)
(***************************************************************************)
IsWordChar(c) ==
  \/ IsDigit(c)
  \/ c = "_"
  \/ \E i \in 1..Len(UpperCase) : UpperCase[i] = c \/ LowerCase[i] = c

\* \b: exactly one of the characters before and after the position is a
\* word character (the ends of the content count as non-word).
WordBoundary(content, pos) ==
  LET before == pos >= 1 /\ IsWordChar(content[pos])
      after == pos < Len(content) /\ IsWordChar(content[pos + 1])
  IN  before # after

Ddd == <<"D", "D", "D">>
Dddd == <<"D", "D", "D", "D">>

PhonePatterns ==
  << <<"B">> \o Ddd \o <<"-">> \o Ddd \o <<"-">> \o Dddd \o <<"B">>,
     <<"B", "(">> \o Ddd \o <<")", "S">> \o Ddd \o <<"-">> \o Dddd \o <<"B">>,
     <<"B">> \o Ddd \o <<".">> \o Ddd \o <<".">> \o Dddd \o <<"B">>,
     <<"B">> \o Ddd \o Ddd \o Dddd \o <<"B">>,
     <<"B", "1", "-">> \o Ddd \o <<"-">> \o Ddd \o <<"-">> \o Dddd \o <<"B">> >>

\* The end of the match of the tokens from the k-th on at the position, or
\* -1 when there is none; \s* is greedy and gives characters back.
RECURSIVE MatchEnd(_, _, _, _)
MatchEnd(pattern, k, content, pos) ==
  IF k > Len(pattern) THEN pos
  ELSE LET here == pos < Len(content)
       IN  CASE pattern[k] = "B" ->
                  IF WordBoundary(content, pos)
                  THEN MatchEnd(pattern, k + 1, content, pos) ELSE -1
             [] pattern[k] = "D" ->
                  IF here /\ IsDigit(content[pos + 1])
                  THEN MatchEnd(pattern, k + 1, content, pos + 1) ELSE -1
             [] pattern[k] = "S" ->
                  IF here /\ content[pos + 1] \in Whitespace
                  THEN LET more == MatchEnd(pattern, k, content, pos + 1)
                       IN  IF more # -1 THEN more
                           ELSE MatchEnd(pattern, k + 1, content, pos)
                  ELSE MatchEnd(pattern, k + 1, content, pos)
             [] OTHER ->
                  IF here /\ content[pos + 1] = pattern[k]
                  THEN MatchEnd(pattern, k + 1, content, pos + 1) ELSE -1

\* content.matchAll(pattern): the matches from left to right, each search
\* starting where the previous match ended.
RECURSIVE matchAll(_, _, _)
matchAll(pattern, content, from) ==
  IF from > Len(content) THEN <<>>
  ELSE LET end == MatchEnd(pattern, 1, content, from)
       IN  IF end = -1 THEN matchAll(pattern, content, from + 1)
           ELSE <<[index |-> from, text |-> SubSeq(content, from + 1, end)]>>
                  \o matchAll(pattern, content, IF end > from THEN end ELSE from + 1)

\* The US_PHONE loop of scanContent: the matches of each pattern in turn
\* that pass the context gate.
RECURSIVE scanPhones(_, _)
scanPhones(content, p) ==
  IF p > Len(PhonePatterns) THEN <<>>
  ELSE SelectSeq(matchAll(PhonePatterns[p], content, 0),
                 LAMBDA match :
                   hasContextKeywords(getContext(content, match.index, contextSize),
                                      contextKeywords("US_PHONE")))
         \o scanPhones(content, p + 1)

(***************************************************************************)
(* Inputs of the detectors.                                                *)
(***************************************************************************)
Rep(c, n) == [i \in 1..n |-> c]

Pad(n) == Rep("x", n)

\* Card numbers: test numbers of 16 and 13 digits, each with one digit
\* replaced, strings of zeros of 12 digits and more, and numbers written
\* with dashes and blanks.
Card16 == <<"4">> \o Rep("1", 15)
Card13 == <<"4">> \o Rep("2", 12)

Replaced(s, p, c) == [i \in 1..Len(s) |-> IF i = p THEN c ELSE s[i]]

RECURSIVE Separated(_, _, _)
Separated(s, sep, every) ==
  IF Len(s) <= every THEN s
  ELSE SubSeq(s, 1, every) \o <<sep>> \o Separated(SubSeq(s, every + 1, Len(s)), sep, every)

CardNumbers ==
  {Rep("0", n) : n \in 12..MaxDigits}
    \cup {Replaced(Card16, p, DigitChars[d]) : p \in 1..16, d \in 1..10}
    \cup {Replaced(Card13, p, DigitChars[d]) : p \in {1, 12, 13}, d \in 1..10}
    \cup {Separated(Card16, "-", 4), Separated(Card13, " ", 1),
          Separated(Rep("0", 12), "-", 1), Separated(Replaced(Card16, 16, "2"), " ", 4)}

\* The text of a match of each detector, and the words written near it.
MatchTexts ==
  [SSN |-> {<<"1", "2", "3", "-", "4", "5", "-", "6", "7", "8", "9">>},
   CREDIT_CARD |-> {Card16, Separated(Card16, "-", 4), Replaced(Card16, 16, "2")},
   AWS_ACCESS_KEY |-> {<<"A", "K", "I", "A">> \o Rep("0", 16)},
   AWS_SECRET_KEY |-> {Rep("k", 40)},
   EMAIL |-> {<<"a", "@", "b", ".", "c", "o">>},
   US_PHONE |-> {<<"5", "5", "5", "-", "5", "5", "5", "-", "5", "5", "5", "5">>}]

NearWords ==
  [SSN |-> {<<"s", "s", "n">>, <<"S", "S", "N">>, <<"S", "o", "c", "i", "a", "l", " ", "S", "e", "c", "u", "r", "i", "t", "y">>, <<"s", "o", "c", "i", "a", "l", "\n", "s", "e", "c", "u", "r", "i", "t", "y">>, <<"z", "z", "z">>},
   CREDIT_CARD |-> {<<"c", "a", "r", "d">>, <<"V", "I", "S", "A">>, <<"z", "z", "z">>},
   AWS_ACCESS_KEY |-> {<<"z", "z", "z">>},
   AWS_SECRET_KEY |-> {<<"s", "e", "c", "r", "e", "t">>, <<"z", "z", "z">>},
   EMAIL |-> {<<"z", "z", "z">>, <<"c", "a", "r", "d">>},
   US_PHONE |-> {<<"t", "e", "l">>, <<"z", "z", "z">>}]

Case(d, content, text, index) ==
  [detector |-> d, content |-> content, text |-> text, index |-> index]

\* The word lies before the match, ending a given number of characters
\* before it, or after the match, starting a number of characters after it.
WordBefore(d, lead, word, gap, text) ==
  Case(d, Pad(lead) \o word \o Pad(gap) \o text \o Pad(2), text,
       lead + Len(word) + gap)

WordAfter(d, lead, text, gap, word) ==
  Case(d, Pad(lead) \o text \o Pad(gap) \o word \o Pad(2), text, lead)

Cases ==
  UNION { UNION { UNION {
    {WordBefore(d, lead, word, gap, text) :
       lead \in {0, 2},
       gap \in {0, contextSize - Len(word) - 1, contextSize - Len(word),
                contextSize - Len(word) + 1}}
    \cup
    {WordAfter(d, 1, text, gap, word) :
       gap \in {0, contextSize - Len(text) - Len(word),
                contextSize - Len(text) - Len(word) + 1}}
    : word \in NearWords[d]} : text \in MatchTexts[d]} : d \in DOMAIN MatchTexts}

\* luhnCheck(cardNumber)
Validate(c) ==
  /\ det.pc = "idle"
  /\ det' = [pc |-> "luhn", text |-> c, valid |-> luhnCheck(c)]
  /\ UNCHANGED <<queue, body, job_objects, findings, pc, message, loc, log,
                 isShuttingDown, faults, ended, firstRun, jobs, ing, api, sd,
                 pool, stopped>>

\* One match of one detector in scanContent.
ScanCandidate(c) ==
  /\ det.pc = "idle"
  /\ det' = [pc |-> "scan", case |-> c,
             out |-> ScanMatch(c.detector, c.content, c.text, c.index)]
  /\ UNCHANGED <<queue, body, job_objects, findings, pc, message, loc, log,
                 isShuttingDown, faults, ended, firstRun, jobs, ing, api, sd,
                 pool, stopped>>

\* The call returns to its caller.
DetectReturn ==
  /\ det.pc # "idle"
  /\ det' = Idle
  /\ UNCHANGED <<queue, body, job_objects, findings, pc, message, loc, log,
                 isShuttingDown, faults, ended, firstRun, jobs, ing, api, sd,
                 pool, stopped>>

\* Telephone numbers in the five formats, and texts that hold one: at the
\* start of the buffer, after whitespace, after a word and after a
\* punctuation mark, followed by a word.
Phone10 == <<"5", "5", "5", "0", "1", "2", "3", "4", "5", "6">>

PhoneFormats ==
  << SubSeq(Phone10, 1, 3) \o <<"-">> \o SubSeq(Phone10, 4, 6) \o <<"-">> \o SubSeq(Phone10, 7, 10),
     <<"(">> \o SubSeq(Phone10, 1, 3) \o <<")", " ">> \o SubSeq(Phone10, 4, 6) \o <<"-">> \o SubSeq(Phone10, 7, 10),
     SubSeq(Phone10, 1, 3) \o <<".">> \o SubSeq(Phone10, 4, 6) \o <<".">> \o SubSeq(Phone10, 7, 10),
     Phone10,
     <<"1", "-">> \o SubSeq(Phone10, 1, 3) \o <<"-">> \o SubSeq(Phone10, 4, 6) \o <<"-">> \o SubSeq(Phone10, 7, 10) >>

PhoneLeads ==
  { <<>>, <<" ">>, <<"\n">>, <<"t", "e", "l", " ">>, <<"T", "e", "l", ":", "\t">>,
    <<"x">>, <<"t", "e", "l", ":">>, <<"z", "z", " ", " ">> }

PhoneTails == { <<>>, <<" ", "c", "e", "l", "l">>, <<" ", "z", "z">>, <<"7">> }

\* scanContent on a text that holds one telephone number.
ScanPhone(format, lead, tail) ==
  /\ det.pc = "idle"
  /\ LET content == lead \o PhoneFormats[format] \o tail
     IN  det' = [pc |-> "phone", format |-> format, content |-> content,
                 index |-> Len(lead), number |-> PhoneFormats[format],
                 out |-> scanPhones(content, 1)]
  /\ UNCHANGED <<queue, body, job_objects, findings, pc, message, loc, log,
                 isShuttingDown, faults, ended, firstRun, jobs, ing, api, sd,
                 pool, stopped>>

DetectInit ==
  /\ det = Idle
  /\ queue = <<>>
  /\ body = <<>>
  /\ job_objects = <<>>
  /\ findings = <<>>
  /\ jobs = {}
  /\ ing = Idle
  /\ api = Idle
  /\ faults = 0
  /\ pc = [w \in Workers |-> "poll"]
  /\ message = [w \in Workers |-> NoMsg]
  /\ loc = [w \in Workers |-> InitLoc]
  /\ log = [w \in Workers |-> <<>>]
  /\ isShuttingDown = [w \in Workers |-> FALSE]
  /\ ended = <<>>
  /\ firstRun = <<>>
  /\ sd = [w \in Workers |-> "none"]
  /\ pool = [w \in Workers |-> "open"]
  /\ stopped = <<>>

DetectNext ==
  \/ \E c \in CardNumbers : Validate(c)
  \/ \E c \in Cases : ScanCandidate(c)
  \/ \E format \in 1..Len(PhoneFormats), lead \in PhoneLeads, tail \in PhoneTails :
       ScanPhone(format, lead, tail)
  \/ DetectReturn

DetectSpec == DetectInit /\ [][DetectNext]_vars

(***************************************************************************)
(* Vocabulary of the properties.                                           *)
(***************************************************************************)
\* The key ends, case-insensitively, in one of the supported extensions.
EndsInSupported(key) ==
  \E ext \in SUPPORTED_EXTENSIONS :
    /\ Len(key) >= Len(ext)
    /\ toLowerCase(SubSeq(key, Len(key) - Len(ext) + 1, Len(key))) = ext

Holding(w) == message[w] # NoMsg

Pos(l, op) == CHOOSE i \in 1..Len(l) : l[i].op = op /\ \A j \in 1..(i - 1) : l[j].op # op

LastCall(l) == l[Len(l)]

\* The rows whose natural key is the one the message carries.
RowOf(b) == {r \in RowKeys : r = RowKey(b.job_id, b.bucket, b.key, b.etag)}

\* The insertFindings call of the attempt has returned.
InsertReturned(w) ==
  /\ Holding(w)
  /\ loc[w].findings # <<>>
  /\ loc[w].idx > Len(loc[w].findings)

(***************************************************************************)
(* C1.  No two rows of the findings table have the same (bucket, key,      *)
(* entity-tag, detector, byte_offset), whatever the number of workers,     *)
(* the interleaving of their inserts and the redeliveries.                 *)
(***************************************************************************)
C1_FindingsUnique ==
  \A i, j \in 1..Len(findings) :
    i # j => DedupeKey(findings[i]) # DedupeKey(findings[j])

\* An insertFindings call returned having met a conflict on every record.
C1_Witness ==
  \E w \in Workers :
    /\ InsertReturned(w)
    /\ loc[w].insertedCount = 0
    /\ \A i \in 1..Len(log[w]) : log[w][i].op = "insert" => log[w][i].ok
    /\ Len(findings) = Len(loc[w].findings)

(***************************************************************************)
(* C2.  After insert_findings has returned, every key of the records       *)
(* passed in is in the findings table exactly once: none is missing.       *)
(***************************************************************************)
C2_EveryKeyPresentOnce ==
  \A w \in Workers :
    InsertReturned(w) =>
      \A n \in 1..Len(loc[w].findings) :
        Cardinality({i \in 1..Len(findings) :
                       DedupeKey(findings[i]) = DedupeKey(loc[w].findings[n])}) = 1

(***************************************************************************)
(* C3.  When a message is processed again after a first complete run, the  *)
(* number of findings rows of its object is the number the first run       *)
(* left, and the second run's insert_findings returns 0.                   *)
(***************************************************************************)
C3_SecondRunInsertsNothing ==
  \A w \in Workers :
    (Holding(w) /\ loc[w].after >= 0 /\ pc[w] \in {"markSucceeded", "delete", "return"}
       /\ "scan" \in Ops(log[w])) =>
      /\ loc[w].insertedCount = 0
      /\ RowsOf(findings, Cur(w).bucket, Cur(w).key, loc[w].fileEtag) = loc[w].after

(***************************************************************************)
(* C4, as claimed.  Once a job_object row is succeeded or failed, no       *)
(* worker action changes its status.                                       *)
(***************************************************************************)
C4_TerminalNeverChanges ==
  [][\A r \in RowKeys :
       job_objects[r].status \in Terminal =>
         job_objects'[r].status = job_objects[r].status]_vars

\* No copy of a message naming the row's job, bucket and key can still be
\* delivered, and no worker holds one.
NoDriver(r) ==
  \A m \in MsgIds :
    (Valid(body[m]) /\ <<body[m].job_id, body[m].bucket, body[m].key>> = <<r[1], r[2], r[3]>>) =>
      /\ queue[m].st \in {"absent", "deleted", "dlq"}
      /\ \A w \in Workers : message[w] # m

(***************************************************************************)
(* C4, as amended.  A succeeded or failed row whose message has left the   *)
(* queue (deleted or dead-lettered) and is held by no worker is never      *)
(* changed again; while a copy can still be delivered or is held, the      *)
(* next attempt overwrites the terminal status.                            *)
(***************************************************************************)
C4_TerminalFinalOnceMessageGone ==
  [][\A r \in RowKeys :
       (job_objects[r].status \in Terminal /\ NoDriver(r)) =>
         job_objects'[r] = job_objects[r]]_vars

\* A row is final while a worker is about to write the status of another.
C4_Witness ==
  \E r \in RowKeys :
    /\ job_objects[r].status \in Terminal
    /\ NoDriver(r)
    /\ \E w \in Workers : pc[w] = "markProcessing"

\* The calls of processMessage that touch the store or the blob store.
WorkCalls ==
  {"status:processing", "status:succeeded", "status:failed",
   "head", "get", "fetch", "scan", "insert"}

\* The attempt of w is over: processMessage returned or threw.
AttemptOver(w) == Holding(w) /\ pc[w] \in {"return", "backoff"}

(***************************************************************************)
(* C5.  A message whose body does not parse, parses to null or another     *)
(* non-object, or lacks job_id, bucket or key is deleted on its first      *)
(* receipt, with no status write, fetch or insert, and is not delivered    *)
(* to an attempt again.                                                    *)
(***************************************************************************)
C5_PoisonDeletedAtOnce ==
  \A w \in Workers :
    (Holding(w) /\ ~Valid(Cur(w))) =>
      /\ Ops(log[w]) \cap WorkCalls = {}
      /\ loc[w].prior = 0
      /\ AttemptOver(w) => "delete" \in Ops(log[w])

\* The fetch of the attempt of w failed (probe, size check or download).
FetchFailed(w) ==
  /\ Holding(w)
  /\ \E i \in 1..Len(log[w]) : log[w][i].op = "fetch" /\ ~log[w][i].ok

Raised(l) ==
  \E i \in 1..Len(l) : ~l[i].ok /\ l[i].op \notin {"parse", "insert", "delete"}

Rank(op) ==
  CASE op = "parse" -> 0 [] op = "destructure" -> 1
    [] op = "status:processing" -> 2
    [] op = "head" -> 3 [] op = "get" -> 4 [] op = "fetch" -> 5
    [] op = "scan" -> 6 [] op = "insert" -> 7
    [] op = "status:succeeded" -> 8 [] op = "delete" -> 9
    [] OTHER -> 10

(***************************************************************************)
(* C8.  Within one attempt on a supported-type message the calls occur in  *)
(* the order fetch, scan, insert of the findings, status succeeded,        *)
(* delete; the delete is issued only after the fetch, the scan, one        *)
(* insert per finding and the succeeded write of the same attempt have     *)
(* returned.                                                               *)
(***************************************************************************)
C8_StrictOrder ==
  \A w \in Workers :
    (Holding(w) /\ Valid(Cur(w)) /\ EndsInSupported(Cur(w).key)) =>
      LET l == log[w] IN
      /\ \A i, j \in 1..Len(l) :
           (i < j /\ l[j].op # "status:failed") => Rank(l[i].op) <= Rank(l[j].op)
      /\ "delete" \in Ops(l) =>
           /\ LastCall(l).op = "delete"
           /\ {"fetch", "scan", "status:succeeded"} \subseteq Ops(l)
           /\ l[Pos(l, "fetch")].ok
           /\ l[Pos(l, "status:succeeded")].ok
           /\ Pos(l, "status:succeeded") = Len(l) - 1
           /\ Cardinality({i \in 1..Len(l) : l[i].op = "insert"}) = Len(loc[w].findings)

\* An attempt with findings ran through to the delete.
C8_Witness ==
  \E w \in Workers :
    /\ pc[w] = "return"
    /\ "delete" \in Ops(log[w])
    /\ Cardinality({i \in 1..Len(log[w]) : log[w][i].op = "insert"}) = 2

\* The message names an object whose key has no supported suffix.
Unsupported(b) == Valid(b) /\ ~EndsInSupported(b.key)

NamesTooLarge(b) ==
  Valid(b) /\ EndsInSupported(b.key) /\ S3Object(b.key).size > MAX_FILE_SIZE

(***************************************************************************)
(* C10.  When the object exceeds the size cap, the worker writes status    *)
(* failed with a descriptive message and the message is not retried: no    *)
(* attempt on it starts after one has ended.  Stated for the runs in       *)
(* which no store, queue or blob-store call has thrown, so that the only   *)
(* failure is the size check.                                              *)
(***************************************************************************)
C10_TooLargeNotRetried ==
  \A w \in Workers :
    (Holding(w) /\ NamesTooLarge(Cur(w)) /\ faults = 0) =>
      /\ pc[w] = "return" =>
           /\ LastCall(log[w]).op = "status:failed"
           /\ LastCall(log[w]).error = TooLargeMessage
      /\ loc[w].prior = 0

(***************************************************************************)
(* C17.  In every reachable state a job_object row has a non-null          *)
(* last_error exactly when it is failed or was marked succeeded with the   *)
(* skip note: a failed row has an error text, a queued or processing row   *)
(* has none, and a succeeded row has none after a real scan and the skip   *)
(* note when its key is of an unsupported type.                            *)
(***************************************************************************)
C17_LastErrorIffFailedOrNote ==
  \A r \in DOMAIN job_objects :
    LET row == job_objects[r]
    IN  /\ (row.last_error # NULL) <=>
             (row.status = "failed" \/ (row.status = "succeeded" /\ ~isSupportedFileType(r[3])))
        /\ row.status \in {"queued", "processing"} => row.last_error = NULL
        /\ row.status = "succeeded" =>
             row.last_error = (IF isSupportedFileType(r[3]) THEN NULL ELSE SkipNote)

\* A retry has written processing over a failed row, which cleared its error.
C17_Witness ==
  \E w \in Workers :
    /\ Holding(w)
    /\ loc[w].prior > 0
    /\ LastCall(log[w]).op = "status:processing" /\ LastCall(log[w]).ok
    /\ \E r \in RowOf(Cur(w)) :
         job_objects[r] = [status |-> "processing", last_error |-> NULL]

\* The scan handler has answered its request with 200.
ScanSucceeded == ing.pc = "done" /\ ing.resp.statusCode = 200

\* The number of non-zero-size objects over all pages of a listing.
Listed(l) ==
  Cardinality({pk \in UNION {{<<p, k>> : k \in 1..Len(Listings[l][p])} :
                               p \in 1..Len(Listings[l])} :
                 Listings[l][pk[1]][pk[2]].Size > 0})

\* The number of messages of a job that the queue holds.
Published(jobId) ==
  Cardinality({m \in DOMAIN body : body[m].job_id = jobId})

(***************************************************************************)
(* C11.  Every successful scan returns job_id, object_count and            *)
(* enqueued_count; object_count is the number of non-zero-size objects     *)
(* listed over all pages and enqueued_count the number of messages the     *)
(* queue accepted; also for an empty listing.                              *)
(***************************************************************************)
C11_ScanResult ==
  ScanSucceeded =>
    /\ {"job_id", "object_count", "enqueued_count"} \subseteq DOMAIN ing.resp.body
    /\ ing.resp.body.job_id = ing.jobId
    /\ ing.resp.body.object_count = Listed(ing.listing)
    /\ ing.resp.body.enqueued_count = Published(ing.jobId)

(***************************************************************************)
(* C12.  In every state of the ingestor each job_object row belongs to a   *)
(* job that has a row, and each message in the queue names a job_object    *)
(* row that exists: the job row is written before the job_object rows and  *)
(* the row of an object before its message is published.                   *)
(***************************************************************************)
C12_RowsBeforeMessages ==
  /\ \A r \in DOMAIN job_objects : r[1] \in jobs
  /\ \A m \in DOMAIN body :
       RowKey(body[m].job_id, body[m].bucket, body[m].key, body[m].etag)
         \in DOMAIN job_objects

\* The handler is between two batches: messages of its job are in the queue.
C12_Witness ==
  /\ ing.pc = "enqueue"
  /\ ing.i > 1
  /\ Published(ing.jobId) > 0

(***************************************************************************)
(* C16.  A CreateScan request whose body has no bucket, or an empty one,   *)
(* is answered with 400, and the jobs table, the job_objects table and     *)
(* the queue are as they were before the request.                          *)
(***************************************************************************)
C16_MissingBucket400 ==
  (ing.pc = "done" /\ ing.req.kind # "garbage" /\ ~Truthy(ing.req.bucket)) =>
    /\ ing.resp.statusCode = 400
    /\ <<jobs, job_objects, queue, body>> = ing.before

\* GetJob has answered 200 for a job.
GotJob == api.pc = "getJob" /\ api.resp.statusCode = 200

\* The number of job_object rows of a job that are in one of the statuses.
RowsIn(jobId, S) ==
  Cardinality({r \in DOMAIN job_objects :
                 r[1] = jobId /\ job_objects[r].status \in S})

(***************************************************************************)
(* C13.  GetJob reports completed exactly when the job has rows and all    *)
(* are succeeded or failed, pending exactly when it has rows and all are   *)
(* queued, and running otherwise (also with no row); counts has the four   *)
(* statuses, each with the number of rows in it (0 when none), and total   *)
(* is the number of job_object rows of the job.                            *)
(***************************************************************************)
C13_GetJobStatus ==
  GotJob =>
    LET j == api.jobId
        b == api.resp.body
        total == RowsIn(j, Statuses)
        done == RowsIn(j, Terminal)
    IN  /\ b.status = "completed" <=> (total > 0 /\ done = total)
        /\ b.status = "pending" <=> (total > 0 /\ RowsIn(j, {"queued"}) = total)
        /\ b.status = "running" <=>
             ~(total > 0 /\ (done = total \/ RowsIn(j, {"queued"}) = total))
        /\ DOMAIN b.counts = Statuses
        /\ \A st \in Statuses : b.counts[st] = RowsIn(j, {st})
        /\ b.progress.total = total
        /\ total = Cardinality({r \in DOMAIN job_objects : r[1] = j})

\* GetJob for the job without objects; every status was reported for no row.
C13_Witness ==
  /\ GotJob
  /\ api.resp.body.progress.total = 0
  /\ api.resp.body.status = "running"

(***************************************************************************)
(* C18.  After any sequence of set_object_status calls, when the last      *)
(* call on an existing row carried succeeded or failed, the status of the  *)
(* row is the one of that call.                                            *)
(***************************************************************************)
C18_LastTerminalWins ==
  (api.pc = "set" /\ api.row \in DOMAIN job_objects /\ api.status \in Terminal) =>
    job_objects[api.row].status = api.status

\* The last call wrote succeeded over a row that was failed.
C18_Witness ==
  /\ api.pc = "set"
  /\ api.row \in DOMAIN job_objects
  /\ api.was = "failed"
  /\ api.status = "succeeded"
  /\ job_objects[api.row].status = "succeeded"

\* The client is reading, or has read, the findings page by page.
Reading == api.pc \in {"listing", "end"}

\* The ids of the rows of the table that satisfy the filters, in id order.
MatchingIds(bucket, prefix) ==
  LET hit == SelectSeq(findings, LAMBDA row : Matches(row, bucket, prefix))
  IN  [i \in 1..Len(hit) |-> hit[i].id]

(***************************************************************************)
(* C14.  The pages obtained by following next_cursor from no cursor until  *)
(* it is null, concatenated, are strictly ascending in id (so no id is     *)
(* repeated), and when no row was inserted meanwhile they are exactly the  *)
(* findings that match the filters, each once.                             *)
(***************************************************************************)
C14_PagesAscendingComplete ==
  Reading =>
    /\ \A i, j \in 1..Len(api.seen) : i < j => api.seen[i] < api.seen[j]
    /\ (api.pc = "end" /\ ~api.inserted) =>
         api.seen = MatchingIds(api.bucket, api.prefix)

\* Two full pages of one row and an empty last page were read.
C14_Witness ==
  /\ api.pc = "end"
  /\ ~api.inserted
  /\ api.calls = 3
  /\ Len(api.seen) = 2
  /\ api.resp.body.count = 0

C19_ShutdownOrder ==
  /\ [](\A w \in Workers :
          /\ pool[w] # "open" => isShuttingDown[w]
          /\ sd[w] \in {"none", "grace"} => pool[w] = "open"
          /\ sd[w] = "exited" => pool[w] = "closed" /\ pc[w] = "exited")
  /\ [][\A w \in Workers :
          /\ pool'[w] # pool[w] =>
               /\ pc[w] # "exited"
               /\ isShuttingDown[w]
               /\ <<pool[w], pool'[w]>> \in {<<"open", "ending">>, <<"ending", "closed">>}
          /\ sd'[w] # sd[w] /\ sd'[w] # "crashed" =>
               <<sd[w], sd'[w]>> \in {<<"none", "grace">>, <<"grace", "closing">>,
                                      <<"closing", "closed">>, <<"closed", "exited">>}
          /\ sd[w] = "none" /\ sd'[w] = "grace" => isShuttingDown'[w]
          /\ pc'[w] = "exited" /\ pc[w] # "exited" /\ sd'[w] # "crashed" =>
               pool[w] = "closed" /\ sd[w] = "closed"]_vars
  /\ \A w \in Workers : isShuttingDown[w] ~> pc[w] = "exited"

\* A signalled process has exited with its pool closed, and the message it
\* held had been deleted by it before the exit.
C19_Witness ==
  \E w \in Workers, m \in MsgIds :
    /\ sd[w] = "exited" /\ pool[w] = "closed" /\ pc[w] = "exited"
    /\ stopped[m].when = "after" /\ stopped[m].gone

C21_WorkerSurvives ==
  /\ [](\A w \in Workers : pc[w] \notin {"exited", "stopped"})
  /\ [][\A w \in Workers :
          pc[w] \in {"return", "backoff"} /\ pc'[w] # pc[w] =>
            pc'[w] = "poll" /\ message'[w] = NoMsg]_vars
  /\ \A w \in Workers : pc[w] # "poll" ~> pc[w] = "poll"

\* Both workers poll again after an attempt on a body that parses to null
\* has ended with the TypeError of the destructuring.
C21_Witness ==
  /\ \A w \in Workers : pc[w] = "poll"
  /\ \E m \in MsgIds : DestructureThrows(body[m]) /\ ended[m] > 0

(***************************************************************************)
(* C22: no step of a worker (or of the queue) creates or deletes a         *)
(* job_object row or touches the jobs table, and no step changes or        *)
(* removes a findings row: job_object rows keep their keys and change only *)
(* in status and last_error, and the findings table only grows at its end. *)
(***************************************************************************)
C22_WorkerFrame ==
  [][/\ DOMAIN job_objects' = DOMAIN job_objects
     /\ jobs' = jobs
     /\ Len(findings') >= Len(findings)
     /\ SubSeq(findings', 1, Len(findings)) = findings
     /\ job_objects' # job_objects =>
          \E r \in DOMAIN job_objects :
            /\ job_objects'[r].status \in {"processing", "succeeded", "failed"}
            /\ \A q \in DOMAIN job_objects \ {r} : job_objects'[q] = job_objects[q]
    ]_vars

\* A redelivered message has been processed to the succeeded write with
\* every one of its findings already in the table.
C22_Witness ==
  \E w \in Workers, r \in DOMAIN job_objects :
    /\ pc[w] = "delete"
    /\ Len(loc[w].findings) > 0
    /\ loc[w].idx > Len(loc[w].findings)
    /\ loc[w].insertedCount = 0
    /\ Len(findings) >= Len(loc[w].findings)
    /\ job_objects[r].status = "succeeded"

(***************************************************************************)
(* C23: when the insert loop of a scan has run, the job has exactly one    *)
(* row per distinct (bucket, key, entity-tag) listed, beside the rows it   *)
(* had; a row the loop created is queued with no error, and an upsert of   *)
(* a key already present adds no row and leaves the table as it was.       *)
(***************************************************************************)
ListedKeys ==
  {RowKey(ing.jobId, ing.req.bucket, ing.objects[n].Key,
          StripQuotes(ing.objects[n].ETag)) : n \in 1..Len(ing.objects)}

C23_OneRowPerListedKey ==
  /\ [](ing.pc = "enqueue" =>
          /\ DOMAIN job_objects = DOMAIN ing.before \cup ListedKeys
          /\ \A r \in DOMAIN ing.before : job_objects[r] = ing.before[r]
          /\ \A r \in ListedKeys \ DOMAIN ing.before :
               job_objects[r] = [status |-> "queued", last_error |-> NULL])
  /\ [][ing.pc = "insertObjects" /\ ing'.pc # "done" =>
          LET r == RowKey(ing.jobId, ing.req.bucket, ing.objects[ing.i].Key,
                          StripQuotes(ing.objects[ing.i].ETag))
          IN  IF r \in DOMAIN job_objects
              THEN job_objects' = job_objects
              ELSE /\ DOMAIN job_objects' = DOMAIN job_objects \cup {r}
                   /\ job_objects'[r].status = "queued"
                   /\ \A q \in DOMAIN job_objects : job_objects'[q] = job_objects[q]
       ]_vars

\* The loop has run over a listing that names one key twice and one key
\* whose row was already there and not queued, and created a row.
C23_Witness ==
  /\ ing.pc = "enqueue"
  /\ Cardinality(ListedKeys) < Len(ing.objects)
  /\ \E r \in ListedKeys \cap DOMAIN ing.before : ing.before[r].status # "queued"
  /\ ListedKeys \ DOMAIN ing.before # {}

(***************************************************************************)
(* C24: in every attempt the fetch issues the metadata probe before any    *)
(* download; after a probe that returned a size above 104857600 it fails   *)
(* with no download issued, and after one that returned a size of at most  *)
(* 104857600 it issues exactly one download.                               *)
(***************************************************************************)
CallsOf(w, op) == {i \in 1..Len(log[w]) : log[w][i].op = op}

C24_ProbeBeforeDownload ==
  \A w \in Workers :
    message[w] # NoMsg =>
      LET heads == CallsOf(w, "head")
          gets == CallsOf(w, "get")
          probed == \E i \in heads : log[w][i].ok
          size == S3Object(Cur(w).key).size
      IN  /\ \A g \in gets : \E h \in heads : h < g /\ log[w][h].ok
          /\ Cardinality(heads) <= 1
          /\ probed /\ size > 104857600 =>
               /\ gets = {}
               /\ \E i \in CallsOf(w, "fetch") : ~log[w][i].ok
          /\ probed /\ size <= 104857600 => Cardinality(gets) = 1

\* The probe of an object one byte above the cap has returned and the fetch
\* has failed with no download.
C24_Witness ==
  \E w \in Workers :
    /\ message[w] # NoMsg
    /\ S3Object(Cur(w).key).size = MAX_FILE_SIZE + 1
    /\ \E i \in CallsOf(w, "head") : log[w][i].ok
    /\ CallsOf(w, "get") = {}
    /\ pc[w] = "catch"

(***************************************************************************)
(* C25: luhnCheck returns true for exactly the candidates whose digits,    *)
(* all other characters removed, number 13 to 19 and whose sum, every      *)
(* second digit from the right doubled and reduced by 9 when above 9, is   *)
(* 0 modulo 10; a credit-card candidate that fails it yields no finding    *)
(* and neither getContext nor hasContextKeywords is called for it.         *)
(***************************************************************************)
RECURSIVE SumOver(_, _)
SumOver(f, S) ==
  IF S = {} THEN 0
  ELSE LET x == CHOOSE y \in S : TRUE IN f[x] + SumOver(f, S \ {x})

LuhnSum(digits) ==
  LET n == Len(digits)
      term == [i \in 1..n |->
                 LET v == DigitValue(digits[i])
                 IN  IF (n - i) % 2 = 1
                     THEN (IF 2 * v > 9 THEN 2 * v - 9 ELSE 2 * v)
                     ELSE v]
  IN  SumOver(term, 1..n)

PassesLuhn(text) ==
  LET digits == SelectSeq(text, IsDigit)
  IN  Len(digits) >= 13 /\ Len(digits) <= 19 /\ LuhnSum(digits) % 10 = 0

C25_LuhnExact ==
  /\ det.pc = "luhn" => (det.valid <=> PassesLuhn(det.text))
  /\ det.pc = "scan" /\ det.case.detector = "CREDIT_CARD"
       /\ ~PassesLuhn(det.case.text) =>
         ~det.out.found /\ det.out.calls = <<"validate">>

\* A 16-digit candidate written near the word "card" has failed the check
\* and was dropped.
C25_Witness ==
  /\ det.pc = "scan"
  /\ det.case.detector = "CREDIT_CARD"
  /\ Len(SelectSeq(det.case.text, IsDigit)) = 16
  /\ ~PassesLuhn(det.case.text)
  /\ includes(det.case.content, <<"c", "a", "r", "d">>)
  /\ ~det.out.found

(***************************************************************************)
(* C26.  A match at offset o of a gated detector (SSN, CREDIT_CARD once    *)
(* its validator has passed, AWS_SECRET_KEY, US_PHONE) is admitted if and  *)
(* only if the lowercased substring [max(0, o-100), min(len, o+100)) of    *)
(* the content contains one of the detector's keywords; a match of a       *)
(* detector without keywords (AWS_ACCESS_KEY, EMAIL) is always admitted.   *)
(***************************************************************************)
Window(content, o) ==
  SubSeq(content, Max(0, o - 100) + 1, Min(Len(content), o + 100))

KeywordInWindow(c) ==
  \E keyword \in contextKeywords(c.detector) :
    includes(toLowerCase(Window(c.content, c.index)), keyword)

C27_ProcessingFailureContinues ==
  \A w \in Workers :
    \A i \in 1..Len(log[w]) :
      (log[w][i].op = "status:processing" /\ ~log[w][i].ok) =>
        /\ pc[w] # "catch"
        /\ \A j \in (i + 1)..Len(log[w]) : log[w][j].op # "status:failed"

(***************************************************************************)
(* C28.  In every attempt the resolved entity-tag is the message's tag     *)
(* when it has one and the fetcher's tag otherwise, and every findings     *)
(* record and every status write made after the fetch, the succeeded       *)
(* write and a failed write alike, carries the resolved tag.               *)
(***************************************************************************)
AfterFetchWrites == {"insert", "status:succeeded", "status:failed"}

C28_ResolvedTagEverywhere ==
  \A w \in Workers :
    \A i \in 1..Len(log[w]) :
      (log[w][i].op = "fetch" /\ log[w][i].ok) =>
        LET resolved == IF Cur(w).etag # <<>> THEN Cur(w).etag ELSE log[w][i].etag
        IN  /\ loc[w].fileEtag = resolved
            /\ \A j \in (i + 1)..Len(log[w]) :
                 log[w][j].op \in AfterFetchWrites => log[w][j].etag = resolved

(***************************************************************************)
(* C29.  The publish step of the ingestor cuts the listed objects into     *)
(* consecutive batches of 1 to 10 entries whose Ids differ within the      *)
(* batch; the k-th entry sent is the k-th listed object, with the body     *)
(* fields job_id, bucket, key and etag, and when the step has run to its   *)
(* end every listed object is in exactly one entry of exactly one batch.   *)
(***************************************************************************)
RECURSIVE Flatten(_)
Flatten(seqs) == IF seqs = <<>> THEN <<>> ELSE Head(seqs) \o Flatten(Tail(seqs))

\* The publish step has sent its last batch and was answered.
PublishComplete ==
  /\ ing.pc = "done"
  /\ ing.resp.statusCode = 200
  /\ Len(ing.objects) > 0

BodyOfObject(entry, obj) ==
  /\ entry.MessageBody.job_id = ing.jobId
  /\ entry.MessageBody.bucket = ing.req.bucket
  /\ entry.MessageBody.key = obj.Key
  /\ <<"\"">> \o entry.MessageBody.etag \o <<"\"">> = obj.ETag

C29_BatchesPartition ==
  LET sent == Flatten(ing.batches)
  IN  /\ \A b \in 1..Len(ing.batches) :
           /\ Len(ing.batches[b]) >= 1
           /\ Len(ing.batches[b]) <= 10
           /\ \A x, y \in 1..Len(ing.batches[b]) :
                 x # y => ing.batches[b][x].Id # ing.batches[b][y].Id
      /\ Len(sent) <= Len(ing.objects)
      /\ \A k \in 1..Len(sent) : BodyOfObject(sent[k], ing.objects[k])
      /\ PublishComplete => Len(sent) = Len(ing.objects)

\* A listing of eleven objects was published in a batch of 10 and one of 1.
C29_Witness ==
  /\ PublishComplete
  /\ Len(ing.objects) = 11
  /\ Len(ing.batches) = 2
  /\ Len(ing.batches[1]) = 10
  /\ Len(ing.batches[2]) = 1

(***************************************************************************)
(* C30.  A ListFindings request whose limit is not an integer in           *)
(* [1, 1000] (below 1, above 1000, or not a number) is answered with 400;  *)
(* a request without limit is served with a limit of 100.                  *)
(***************************************************************************)
LimitIsValid(param) ==
  param.kind = "num" /\ param.v >= 1 /\ param.v <= 1000

C30_BadLimitRefused ==
  (api.pc \in {"listing", "end", "refused"} /\ api.calls > 0) =>
    /\ (Given(api.limit) /\ ~LimitIsValid(api.limit)) => api.resp.statusCode = 400
    /\ api.limit = Absent =>
         /\ api.resp.statusCode = 200
         /\ api.resp.body.findings =
              [i \in 1..api.resp.body.count |->
                 [Query(findings, api.bucket, api.prefix, Absent, 100)[i]
                    EXCEPT !.id = toString(@)]] \/ api.inserted \/ api.calls > 1

(***************************************************************************)
(* C31.  Once the shutdown flag of a worker is set, the worker begins no   *)
(* further message: a message returned by the receive that was in flight   *)
(* when the flag was set is neither processed nor deleted, and no new      *)
(* receive is issued.                                                      *)
(***************************************************************************)
C31_NoWorkAfterFlag ==
  [][\A w \in Workers :
       isShuttingDown[w] =>
         /\ message[w] = NoMsg => message'[w] = NoMsg
         /\ pc[w] # "poll" => pc'[w] # "poll"
         /\ (pc[w] = "poll" /\ pc'[w] # "poll") =>
              /\ pc'[w] \in {"stopped", "backoff", "exited"}
              /\ log'[w] = <<>>
              /\ \A m \in MsgIds :
                   queue'[m].st = "deleted" => queue[m].st = "deleted"]_vars

\* The receive in flight returned a message to a worker whose flag was set:
\* the message was counted as received, no attempt was made on it and the
\* worker has left its loop.
C31_Witness ==
  \E m \in MsgIds :
    /\ pc["w1"] = "stopped"
    /\ isShuttingDown["w1"]
    /\ queue[m].st = "inflight"
    /\ queue[m].rc = 1
    /\ ended[m] = 0
    /\ stopped[m] = NoStop
    /\ \A w \in Workers : message[w] # m

(***************************************************************************)
(* C32.  For every text in which a telephone number in one of the five     *)
(* declared formats starts the buffer or follows whitespace, with a phone  *)
(* keyword in the context window, scanContent emits a US_PHONE finding     *)
(* for that number: a finding whose match lies in the number (the number   *)
(* is taken to end where no digit or letter follows it).                   *)
(***************************************************************************)
FollowsWhitespace(content, o) == o = 0 \/ content[o] \in Whitespace

\* The number is not the beginning of a longer run of digits or letters.
EndsThere(content, end) == end = Len(content) \/ ~IsWordChar(content[end + 1])

FoundInNumber ==
  \E i \in 1..Len(det.out) :
    /\ det.out[i].index >= det.index
    /\ det.out[i].index + Len(det.out[i].text) <= det.index + Len(det.number)

C32_PhoneFormatsFound ==
  (/\ det.pc = "phone"
   /\ FollowsWhitespace(det.content, det.index)
   /\ EndsThere(det.content, det.index + Len(det.number))
   /\ KeywordInWindow([detector |-> "US_PHONE", content |-> det.content,
                       index |-> det.index]))
    => FoundInNumber

(***************************************************************************)
(* C33.  Whenever an attempt has set its job_object to succeeded by a      *)
(* real scan and deleted its message, every finding the detectors          *)
(* produced in that attempt has a row with the same (bucket, key,          *)
(* entity-tag, detector, byte_offset) in the findings table, also when     *)
(* single INSERT statements failed.                                        *)
(***************************************************************************)
C33_SucceededMeansPersisted ==
  \A w \in Workers :
    (/\ pc[w] = "return"
     /\ RanThrough(log[w])
     /\ queue[message[w]].st = "deleted")
      => \A i \in 1..Len(loc[w].findings) :
           \E j \in 1..Len(findings) :
             DedupeKey(findings[j]) = DedupeKey(loc[w].findings[i])

(***************************************************************************)
(* C34.  The entity-tag of every findings row is the entity-tag of the     *)
(* object version whose bytes were scanned to produce it, also when the    *)
(* object was overwritten between the listing and the fetch.               *)
(***************************************************************************)
C34_RowTagIsScannedVersion ==
  \A i \in 1..Len(findings) :
    findings[i].etag = StripQuotes(S3Object(findings[i].key).ETag)

(***************************************************************************)
(* C35.  Once GetJob has reported the status completed for a job, every    *)
(* later GetJob for that job reports completed, under any redelivery of    *)
(* messages and any interleaving of the workers: no step takes a job out   *)
(* of completed.                                                           *)
(***************************************************************************)
ReportsCompleted(jobId) == GetJobResponse(jobId).body.status = "completed"

C35_CompletedStays ==
  [][\A jobId \in jobs : ReportsCompleted(jobId) => ReportsCompleted(jobId)']_vars

(***************************************************************************)
(* C36.  For every combination of per-status counts, GetJob reports a      *)
(* percentage in 0..100, and it reports the percentage 100 only together   *)
(* with the status completed (succeeded + failed = total > 0).             *)
(***************************************************************************)
C36_HundredMeansCompleted ==
  api.pc = "summary" =>
    /\ api.progress.percentage \in 0..100
    /\ api.progress.percentage = 100 => api.status = "completed"

(***************************************************************************)
(* C37.  Whenever a message that names an existing job_object has left     *)
(* the main queue for good, deleted by a worker or moved to the            *)
(* dead-letter queue, the status of that job_object is succeeded or        *)
(* failed: no job_object is left queued or processing with no message to   *)
(* drive it.                                                               *)
(***************************************************************************)
GoneForGood(m) == queue[m].st \in {"deleted", "dlq"}

NamesRow(b) ==
  Valid(b) /\ RowKey(b.job_id, b.bucket, b.key, b.etag) \in DOMAIN job_objects

C37_NoOrphanObject ==
  \A m \in MsgIds :
    (GoneForGood(m) /\ NamesRow(body[m])) =>
      job_objects[RowKey(body[m].job_id, body[m].bucket, body[m].key,
                         body[m].etag)].status \in Terminal

(***************************************************************************)
(* C38.  After a scan request has returned, with success or with an        *)
(* error, every job_object row in status queued has a message for its      *)
(* (job, bucket, key, entity-tag) in the main queue, also when the queue   *)
(* reports entries that failed or a batch publish throws.                  *)
(***************************************************************************)
HasMessage(r) ==
  \E k \in 1..Len(body) :
    /\ queue[k].st \in {"visible", "inflight"}
    /\ RowKey(body[k].job_id, body[k].bucket, body[k].key, body[k].etag) = r

C38_QueuedRowsHaveMessages ==
  ing.pc = "done" =>
    \A r \in DOMAIN job_objects :
      job_objects[r].status = "queued" => HasMessage(r)

(***************************************************************************)
(* C39.  A findings row keeps forever the job_id of the first job whose    *)
(* worker inserted its (bucket, key, entity-tag, detector, byte_offset):   *)
(* when a later job scans the same object version, its INSERT adds no row  *)
(* and re-attributes none, and the findings_count of every job stays what  *)
(* it was, so the later job's count does not include those findings.       *)
(***************************************************************************)
C39_FirstJobKeepsFindings ==
  [][/\ \A i \in 1..Len(findings) :
          \E j \in 1..Len(findings') :
            /\ DedupeKey(findings'[j]) = DedupeKey(findings[i])
            /\ findings'[j].job_id = findings[i].job_id
     /\ \A w \in Workers :
          (/\ pc[w] = "insert"
           /\ loc'[w].idx = loc[w].idx + 1
           /\ Conflict(findings, loc[w].findings[loc[w].idx]))
            => /\ findings' = findings
               /\ \A jobId \in jobs : findingsCount(jobId)' = findingsCount(jobId)
    ]_vars

\* The worker of job j2 has scanned the version that job j1 scanned first:
\* its records met a conflict each, the rows belong to j1 and GetJob counts
\* no finding for j2.
C39_Witness ==
  \E w \in Workers :
    /\ InsertReturned(w)
    /\ Cur(w).job_id = "j2"
    /\ loc[w].insertedCount = 0
    /\ \A i \in 1..Len(log[w]) : log[w][i].op = "insert" => log[w][i].ok
    /\ \A i \in 1..Len(loc[w].findings) :
         \E j \in 1..Len(findings) :
           /\ DedupeKey(findings[j]) = DedupeKey(loc[w].findings[i])
           /\ findings[j].job_id = "j1"
    /\ findingsCount("j2") = 0
    /\ findingsCount("j1") = Len(loc[w].findings)

(***************************************************************************)
(* C40.  With the workers scheduled fairly and no failure of the store,    *)
(* the blob store or the queue, every job a successful scan request has    *)
(* created eventually reports the status completed in GetJob, whatever the *)
(* listing returned, an empty listing included.                            *)
(***************************************************************************)
CallFailed == faults > 0

C40_EveryJobCompletes ==
  \A jobId \in {"j1", "j2"} :
    (jobId \in jobs) ~>
      (CallFailed \/ (jobId \in jobs /\ ReportsCompleted(jobId)))

====
